---- MODULE Spec2Model ----
(***************************************************************************)
(* The local state persistence layer of App/src-tauri/src/commands.rs:    *)
(* three process-wide caches (SETTINGS, CHATS, FOLDERS), each behind its  *)
(* own mutex, over three JSON files in the application data directory.    *)
(* A handler holds its collection's lock from its first statement to its  *)
(* return, so one handler call is one atomic action here.                 *)
(***************************************************************************)
EXTENDS Integers, Sequences, FiniteSets, TLC

VARIABLES
    SETTINGS,       \* static SETTINGS: Option<AppSettings>, <<>> is None
    CHATS,          \* static CHATS: Vec<RustSavedChat>
    FOLDERS,        \* static FOLDERS: Vec<RustFolder>
    settings_json,  \* <app_data_dir>/settings.json
    chats_json,     \* <app_data_dir>/chats.json
    folders_json,   \* <app_data_dir>/folders.json
    last,           \* the handler call that returned last, and what it returned
    client,         \* the repository whose handlers this behaviour calls
    failures,       \* number of calls so far in which an operating system call failed
    mutex,          \* the Mutex around each static: the thread whose guard holds it
    threads         \* the handler calls that run on threads of their own

vars == <<SETTINGS, CHATS, FOLDERS, settings_json, chats_json, folders_json,
          last, client, failures, mutex, threads>>

(***************************************************************************)
(* Bounds of the model.                                                    *)
(***************************************************************************)
MaxTs == 2          \* timestamps are 1..MaxTs
MaxFileLen == 2     \* records in a file that exists when the process starts
MaxFailures == 1    \* calls of one behaviour in which an operating system call fails

Ids == {"c1", "c2"}
Timestamps == 1 .. MaxTs

\* Option<T>: None is the empty sequence, Some(x) is <<x>>.
None == <<>>
Some(x) == <<x>>

(***************************************************************************)
(* Records.                                                                *)
(***************************************************************************)
ChatMessage(sender, content) == [sender |-> sender, content |-> content]

RustSavedChat(id, timestamp, mode, messages, title) ==
    [id |-> id, timestamp |-> timestamp, mode |-> mode,
     messages |-> messages, title |-> title]

RustFolder(id, name, timestamp, parent_id, is_expanded) ==
    [id |-> id, name |-> name, timestamp |-> timestamp,
     parent_id |-> parent_id, is_expanded |-> is_expanded]

\* The chats a caller passes to save_chat: every id with every timestamp.
\* The chats of an odd timestamp have no title and no message, those of an
\* even one have both, so that two chats that differ in timestamp differ in
\* every field but the id.
ChatInputs ==
    { IF ts % 2 = 1
      THEN RustSavedChat(id, ts, "action", <<>>, None)
      ELSE RustSavedChat(id, ts, "walkthrough", <<ChatMessage("user", "Hello")>>, Some("X")) :
        id \in Ids, ts \in Timestamps }

\* The folders a caller passes to save_folder, likewise.
FolderInputs ==
    { IF ts % 2 = 1
      THEN RustFolder(id, "n", ts, None, TRUE)
      ELSE RustFolder(id, "m", ts, Some("c1"), FALSE) :
        id \in Ids, ts \in Timestamps }

(***************************************************************************)
(* JSON documents.  A file is absent, or holds text; text is either not    *)
(* JSON at all (garbage: a truncated or hand-broken file) or a JSON value. *)
(***************************************************************************)
JNull == [type |-> "null"]
JString(s) == [type |-> "string", value |-> s]
JNumber(n) == [type |-> "number", value |-> n]
JBool(b) == [type |-> "bool", value |-> b]
JArray(items) == [type |-> "array", items |-> items]
JObject(members) == [type |-> "object", members |-> members]
Garbage == [type |-> "garbage"]

Absent == [exists |-> FALSE]
Text(doc) == [exists |-> TRUE, doc |-> doc]

MapSeq(f(_), s) == [i \in 1 .. Len(s) |-> f(s[i])]

\* An Option<String> field that is always written as null, for comparison
\* with OptionToJson below.
OptionToJsonNull(o) == JNull

\* serde: Option<String> is written as null or a string
OptionToJson(o) == IF o = None THEN JNull ELSE JString(o[1])
OptionFromJson(j) == IF j.type = "null" THEN None ELSE Some(j.value)
IsOptionJson(j) == j.type \in {"null", "string"}
\* serde: a missing Option field of a struct is read as None
OptionField(members, k) ==
    IF k \in DOMAIN members THEN OptionFromJson(members[k]) ELSE None
IsOptionField(members, k) ==
    k \in DOMAIN members => IsOptionJson(members[k])

MessageToJson(m) ==
    JObject([sender |-> JString(m.sender), content |-> JString(m.content)])
MessageFromJson(j) ==
    ChatMessage(j.members.sender.value, j.members.content.value)
IsMessageJson(j) ==
    /\ j.type = "object"
    /\ {"sender", "content"} \subseteq DOMAIN j.members
    /\ j.members.sender.type = "string"
    /\ j.members.content.type = "string"

\* #[derive(Serialize)] of RustSavedChat
ChatToJson(c) ==
    JObject([id |-> JString(c.id),
             timestamp |-> JNumber(c.timestamp),
             mode |-> JString(c.mode),
             messages |-> JArray(MapSeq(MessageToJson, c.messages)),
             title |-> OptionToJson(c.title)])

\* #[derive(Deserialize)] of RustSavedChat
IsChatJson(j) ==
    /\ j.type = "object"
    /\ {"id", "timestamp", "mode", "messages"} \subseteq DOMAIN j.members
    /\ j.members.id.type = "string"
    /\ j.members.timestamp.type = "number"
    /\ j.members.mode.type = "string"
    /\ j.members.messages.type = "array"
    /\ \A i \in 1 .. Len(j.members.messages.items) :
           IsMessageJson(j.members.messages.items[i])
    /\ IsOptionField(j.members, "title")

ChatFromJson(j) ==
    RustSavedChat(j.members.id.value,
                  j.members.timestamp.value,
                  j.members.mode.value,
                  MapSeq(MessageFromJson, j.members.messages.items),
                  OptionField(j.members, "title"))

\* #[derive(Serialize)] of RustFolder
FolderToJson(f) ==
    JObject([id |-> JString(f.id),
             name |-> JString(f.name),
             timestamp |-> JNumber(f.timestamp),
             parent_id |-> OptionToJson(f.parent_id),
             is_expanded |-> JBool(f.is_expanded)])

\* #[derive(Deserialize)] of RustFolder
IsFolderJson(j) ==
    /\ j.type = "object"
    /\ {"id", "name", "timestamp", "is_expanded"} \subseteq DOMAIN j.members
    /\ j.members.id.type = "string"
    /\ j.members.name.type = "string"
    /\ j.members.timestamp.type = "number"
    /\ IsOptionField(j.members, "parent_id")
    /\ j.members.is_expanded.type = "bool"

FolderFromJson(j) ==
    RustFolder(j.members.id.value,
               j.members.name.value,
               j.members.timestamp.value,
               OptionField(j.members, "parent_id"),
               j.members.is_expanded.value)

\* serde_json::to_string_pretty(&*chats_guard)
ChatsToJson(chats) == JArray(MapSeq(ChatToJson, chats))
\* serde_json::to_string_pretty(&*folders_guard)
FoldersToJson(folders) == JArray(MapSeq(FolderToJson, folders))

\* serde_json::from_str::<Vec<RustSavedChat>>(&json): Ok(v) is <<v>>, Err is <<>>
ChatsFromJson(doc) ==
    IF /\ doc.type = "array"
       /\ \A i \in 1 .. Len(doc.items) : IsChatJson(doc.items[i])
    THEN <<MapSeq(ChatFromJson, doc.items)>>
    ELSE <<>>

\* serde_json::from_str::<Vec<RustFolder>>(&json): Ok(v) is <<v>>, Err is <<>>
FoldersFromJson(doc) ==
    IF /\ doc.type = "array"
       /\ \A i \in 1 .. Len(doc.items) : IsFolderJson(doc.items[i])
    THEN <<MapSeq(FolderFromJson, doc.items)>>
    ELSE <<>>

(***************************************************************************)
(* Vec operations the handlers use.                                        *)
(***************************************************************************)
\* Where a stable descending sort puts x in the sorted s: behind every record
\* whose timestamp is at least x's.
RECURSIVE InsertDesc(_, _)
InsertDesc(s, x) ==
    IF s = <<>> THEN <<x>>
    ELSE IF Head(s).timestamp >= x.timestamp
         THEN <<Head(s)>> \o InsertDesc(Tail(s), x)
         ELSE <<x>> \o s

\* A handler that leaves the vector in the order it has, for comparison with
\* the sort below.
Unsorted(s) == s

\* v.sort_by(|a, b| b.timestamp.cmp(&a.timestamp)): stable, newest first
RECURSIVE SortByTimestampDesc(_)
SortByTimestampDesc(s) ==
    IF s = <<>> THEN <<>>
    ELSE InsertDesc(SortByTimestampDesc(SubSeq(s, 1, Len(s) - 1)), s[Len(s)])

\* v.iter().position(|c| c.id == id): 0 is None, i is Some(i - 1)
Position(s, id) ==
    IF \E i \in 1 .. Len(s) : s[i].id = id
    THEN CHOOSE i \in 1 .. Len(s) :
             /\ s[i].id = id
             /\ \A j \in 1 .. i - 1 : s[j].id # id
    ELSE 0

\* An "add" that never looks for the id, for comparison with Upsert below.
Push(s, item) == Append(s, item)

\* An update that takes everything from item except the timestamp, which it
\* keeps from the record found, for comparison with Upsert below.
UpsertKeepTimestamp(s, item) ==
    LET index == Position(s, item.id)
    IN  IF index # 0
        THEN [s EXCEPT ![index] = [item EXCEPT !.timestamp = s[index].timestamp]]
        ELSE Append(s, item)

\* "Update or add": replace at the index found, else push
Upsert(s, item) ==
    LET index == Position(s, item.id)
    IN  IF index # 0 THEN [s EXCEPT ![index] = item] ELSE Append(s, item)

\* A removal of the first record found only, for comparison with Retain below.
RemoveFirst(s, id) ==
    LET index == Position(s, id)
    IN  IF index = 0 THEN s
        ELSE SubSeq(s, 1, index - 1) \o SubSeq(s, index + 1, Len(s))

\* v.retain(|c| c.id != id)
Retain(s, id) == SelectSeq(s, LAMBDA c : c.id # id)

(***************************************************************************)
(* Settings.                                                               *)
(***************************************************************************)
\* fn create_default_settings() -> AppSettings
create_default_settings ==
    [openai_api_key |-> "",
     claude_api_key |-> "",
     open_router_api_key |-> "",
     brave_search_api_key |-> "",
     walkthrough_provider |-> "openai",
     walkthrough_model |-> "gpt-4o",
     action_provider |-> "openai",
     action_model |-> "gpt-4o",
     auto_approve_tools |-> FALSE,
     walkthrough_tools |-> [command |-> TRUE, web_search |-> TRUE],
     action_tools |-> [command |-> TRUE, web_search |-> TRUE],
     auto_approve_walkthrough |-> [command |-> FALSE, web_search |-> FALSE],
     auto_approve_action |-> [command |-> FALSE, web_search |-> FALSE],
     whitelisted_commands |-> <<>>,
     blacklisted_commands |-> <<>>,
     theme |-> "system"]

\* The settings a caller passes to save_settings.
SettingsInputs ==
    { create_default_settings,
      [create_default_settings EXCEPT
          !.openai_api_key = "sk-1", !.theme = "dark",
          !.auto_approve_tools = TRUE, !.whitelisted_commands = <<"x">>],
      [create_default_settings EXCEPT
          !.action_provider = "claude", !.action_model = "claude-3",
          !.walkthrough_tools = [command |-> FALSE],
          !.blacklisted_commands = <<"xx", "rm">>] }

StringFields ==
    {"openai_api_key", "claude_api_key", "open_router_api_key", "brave_search_api_key",
     "walkthrough_provider", "walkthrough_model", "action_provider", "action_model",
     "theme"}
MapFields ==
    {"walkthrough_tools", "action_tools", "auto_approve_walkthrough", "auto_approve_action"}
ListFields == {"whitelisted_commands", "blacklisted_commands"}
SettingsFields == StringFields \cup MapFields \cup ListFields \cup {"auto_approve_tools"}

\* HashMap<String, bool> as a JSON object
MapToJson(m) == JObject([k \in DOMAIN m |-> JBool(m[k])])
MapFromJson(j) == [k \in DOMAIN j.members |-> j.members[k].value]
IsMapJson(j) ==
    /\ j.type = "object"
    /\ \A k \in DOMAIN j.members : j.members[k].type = "bool"

\* Vec<String> as a JSON array
ListToJson(l) == JArray(MapSeq(JString, l))
ListFromJson(j) == [i \in 1 .. Len(j.items) |-> j.items[i].value]
IsListJson(j) ==
    /\ j.type = "array"
    /\ \A i \in 1 .. Len(j.items) : j.items[i].type = "string"

\* #[derive(Serialize)] of AppSettings
SettingsToJson(s) ==
    JObject([k \in SettingsFields |->
        IF k \in StringFields THEN JString(s[k])
        ELSE IF k \in MapFields THEN MapToJson(s[k])
        ELSE IF k \in ListFields THEN ListToJson(s[k])
        ELSE JBool(s[k])])

\* #[derive(Deserialize)] of AppSettings: no field has a serde default, so a
\* missing field is an error.
IsSettingsJson(j) ==
    /\ j.type = "object"
    /\ SettingsFields \subseteq DOMAIN j.members
    /\ \A k \in StringFields : j.members[k].type = "string"
    /\ \A k \in MapFields : IsMapJson(j.members[k])
    /\ \A k \in ListFields : IsListJson(j.members[k])
    /\ j.members.auto_approve_tools.type = "bool"

\* A parse that takes a missing field from the default settings, as a struct
\* with #[serde(default)] on its fields would, for comparison with
\* SettingsFromJson below.
SettingsFromJsonFieldDefaults(doc) ==
    IF doc.type = "object"
    THEN << [k \in SettingsFields |->
               IF k \notin DOMAIN doc.members THEN create_default_settings[k]
               ELSE IF k \in StringFields THEN doc.members[k].value
               ELSE IF k \in MapFields THEN MapFromJson(doc.members[k])
               ELSE IF k \in ListFields THEN ListFromJson(doc.members[k])
               ELSE doc.members[k].value] >>
    ELSE <<>>

\* serde_json::from_str::<AppSettings>(&json): Ok(s) is <<s>>, Err is <<>>
SettingsFromJson(doc) ==
    IF IsSettingsJson(doc)
    THEN << [k \in SettingsFields |->
               IF k \in StringFields THEN doc.members[k].value
               ELSE IF k \in MapFields THEN MapFromJson(doc.members[k])
               ELSE IF k \in ListFields THEN ListFromJson(doc.members[k])
               ELSE doc.members[k].value] >>
    ELSE <<>>

(***************************************************************************)
(* What the operating system answers to a handler call: io names the call  *)
(* of the handler that fails, "ok" when none does.                         *)
(***************************************************************************)
\* get_*_path: app_data_dir() fails, or create_dir_all(&data_dir) fails
PathFailures == {"no_app_data_dir", "create_dir_failed"}
\* a get handler: the path, then fs::read_to_string of a file that exists
GetIo == {"ok", "read_failed"} \cup PathFailures
\* fs::write creates or truncates the file, then writes the text: it fails
\* before the file is touched, or after the file was truncated
WriteFailures == {"write_failed_untouched", "write_failed_truncated"}
\* a save or delete handler: the path, then fs::write
SaveIo == {"ok"} \cup PathFailures \cup WriteFailures
\* save_folder and delete_folder also look for the parent directory and
\* create it when it is gone
FolderSaveIo == SaveIo \cup {"parent_create_failed"}

\* fn get_settings_path / get_chats_path / get_folders_path: the Err text
get_path_error(io) ==
    IF io = "no_app_data_dir" THEN "Failed to get app data directory"
    ELSE "Failed to create app data directory"

\* The file after fs::write(path, json)
fs_write(file, json, io) ==
    IF io = "write_failed_untouched" THEN file
    ELSE IF io = "write_failed_truncated" THEN Text(Garbage)
    ELSE Text(json)

(***************************************************************************)
(* The handlers, as functions of the cache, the file, the argument and the *)
(* operating system's answer.  Each gives the cache and the file it        *)
(* leaves, the branch it took, and what it returns.                        *)
(***************************************************************************)
\* get_settings: the value loaded when SETTINGS is None and the path resolved
load_settings(file, io) ==
    IF ~file.exists THEN [branch |-> "not_found", value |-> create_default_settings]
    ELSE IF io = "read_failed" THEN [branch |-> "read_err", value |-> create_default_settings]
    ELSE LET parsed == SettingsFromJson(file.doc)
         IN  IF parsed = <<>>
             THEN [branch |-> "parse_err", value |-> create_default_settings]
             ELSE [branch |-> "loaded", value |-> parsed[1]]

\* A get_settings that reads the file on every call, for comparison with
\* get_settings_call below.
get_settings_uncached(cache, file, io) ==
    IF io \in PathFailures
    THEN [cache |-> Some(create_default_settings), branch |-> "path_err",
          ret |-> create_default_settings]
    ELSE LET loaded == load_settings(file, io)
         IN  [cache |-> Some(loaded.value), branch |-> loaded.branch,
              ret |-> loaded.value]

\* pub fn get_settings(app_handle) -> AppSettings
get_settings_call(cache, file, io) ==
    IF cache # None
    THEN [cache |-> cache, branch |-> "cache", ret |-> cache[1]]
    ELSE IF io \in PathFailures
    THEN [cache |-> Some(create_default_settings), branch |-> "path_err",
          ret |-> create_default_settings]
    ELSE LET loaded == load_settings(file, io)
         IN  [cache |-> Some(loaded.value), branch |-> loaded.branch,
              ret |-> loaded.value]

\* A save_settings that drops the result of fs::write, for comparison with
\* save_settings_call below.
save_settings_unreported(cache, file, settings, io) ==
    IF io \in PathFailures
    THEN [cache |-> Some(settings), file |-> file, branch |-> "path_err",
          res |-> get_path_error(io)]
    ELSE [cache |-> Some(settings),
          file |-> fs_write(file, SettingsToJson(settings), io),
          branch |-> "write",
          res |-> "Ok"]

\* pub fn save_settings(app_handle, settings) -> Result<(), String>
save_settings_call(cache, file, settings, io) ==
    IF io \in PathFailures
    THEN [cache |-> Some(settings), file |-> file, branch |-> "path_err",
          res |-> get_path_error(io)]
    ELSE [cache |-> Some(settings),
          file |-> fs_write(file, SettingsToJson(settings), io),
          branch |-> "write",
          res |-> IF io \in WriteFailures THEN "Failed to write settings file" ELSE "Ok"]

\* get_all_chats: the vector loaded when CHATS is empty and the path resolved
load_chats(file, io) ==
    IF ~file.exists THEN [branch |-> "not_found", value |-> <<>>]
    ELSE IF io = "read_failed" THEN [branch |-> "read_err", value |-> <<>>]
    ELSE LET parsed == ChatsFromJson(file.doc)
         IN  IF parsed = <<>>
             THEN [branch |-> "parse_err", value |-> <<>>]
             ELSE [branch |-> "loaded", value |-> parsed[1]]

\* pub fn get_all_chats(app_handle) -> Vec<RustSavedChat>
get_all_chats_call(cache, file, io) ==
    IF cache # <<>>
    THEN [cache |-> cache, branch |-> "cache", ret |-> cache]
    ELSE IF io \in PathFailures
    THEN [cache |-> cache, branch |-> "path_err", ret |-> <<>>]
    ELSE LET loaded == load_chats(file, io)
         IN  [cache |-> loaded.value, branch |-> loaded.branch,
              ret |-> SortByTimestampDesc(loaded.value)]

\* save_chat, save_folder: "Update or add", then "Sort by timestamp"
upsert_and_sort(cache, item) == SortByTimestampDesc(Upsert(cache, item))

\* A save_chat that changes the vector only once the file is written, for
\* comparison with save_chat_call below.
save_chat_persist_first(cache, file, chat, io) ==
    LET updated == upsert_and_sort(cache, chat)
        branch == IF Position(cache, chat.id) # 0 THEN "update" ELSE "insert"
    IN  IF io \in PathFailures
        THEN [cache |-> cache, file |-> file, branch |-> branch,
              res |-> get_path_error(io)]
        ELSE [cache |-> IF io \in WriteFailures THEN cache ELSE updated,
              file |-> fs_write(file, ChatsToJson(updated), io),
              branch |-> branch,
              res |-> IF io \in WriteFailures THEN "Failed to write chats file" ELSE "Ok"]

\* pub fn save_chat(app_handle, chat) -> Result<(), String>
save_chat_call(cache, file, chat, io) ==
    LET updated == upsert_and_sort(cache, chat)
        branch == IF Position(cache, chat.id) # 0 THEN "update" ELSE "insert"
    IN  IF io \in PathFailures
        THEN [cache |-> updated, file |-> file, branch |-> branch,
              res |-> get_path_error(io)]
        ELSE [cache |-> updated,
              file |-> fs_write(file, ChatsToJson(updated), io),
              branch |-> branch,
              res |-> IF io \in WriteFailures THEN "Failed to write chats file" ELSE "Ok"]

\* A delete_chat without the length check, which writes the file whether or
\* not a record was removed, for comparison with delete_chat_call below.
delete_chat_unchecked(cache, file, chat_id, io) ==
    LET kept == Retain(cache, chat_id)
    IN  IF io \in PathFailures
        THEN [cache |-> kept, file |-> file, branch |-> "hit",
              res |-> get_path_error(io)]
        ELSE [cache |-> kept,
              file |-> fs_write(file, ChatsToJson(kept), io),
              branch |-> "hit",
              res |-> IF io \in WriteFailures
                      THEN "Failed to write chats file after deletion" ELSE "Ok"]

\* pub fn delete_chat(app_handle, chat_id) -> Result<(), String>
delete_chat_call(cache, file, chat_id, io) ==
    LET kept == Retain(cache, chat_id)
    IN  IF Len(kept) = Len(cache)
        THEN [cache |-> kept, file |-> file, branch |-> "miss",
              res |-> "Chat with ID not found"]
        ELSE IF io \in PathFailures
        THEN [cache |-> kept, file |-> file, branch |-> "hit",
              res |-> get_path_error(io)]
        ELSE [cache |-> kept,
              file |-> fs_write(file, ChatsToJson(kept), io),
              branch |-> "hit",
              res |-> IF io \in WriteFailures
                      THEN "Failed to write chats file after deletion" ELSE "Ok"]

\* get_all_folders: the vector loaded when FOLDERS is empty and the path resolved
load_folders(file, io) ==
    IF ~file.exists THEN [branch |-> "not_found", value |-> <<>>]
    ELSE IF io = "read_failed" THEN [branch |-> "read_err", value |-> <<>>]
    ELSE LET parsed == FoldersFromJson(file.doc)
         IN  IF parsed = <<>>
             THEN [branch |-> "parse_err", value |-> <<>>]
             ELSE [branch |-> "loaded", value |-> parsed[1]]

\* pub fn get_all_folders(app_handle) -> Vec<RustFolder>
get_all_folders_call(cache, file, io) ==
    IF cache # <<>>
    THEN [cache |-> cache, branch |-> "cache", ret |-> cache]
    ELSE IF io \in PathFailures
    THEN [cache |-> cache, branch |-> "path_err", ret |-> <<>>]
    ELSE LET loaded == load_folders(file, io)
         IN  [cache |-> loaded.value, branch |-> loaded.branch,
              ret |-> SortByTimestampDesc(loaded.value)]

\* A save_folder that writes the saved record alone, for comparison with
\* save_folder_call below.
save_folder_record_only(cache, file, folder, io) ==
    LET updated == upsert_and_sort(cache, folder)
        branch == IF Position(cache, folder.id) # 0 THEN "update" ELSE "insert"
    IN  IF io \in PathFailures
        THEN [cache |-> updated, file |-> file, branch |-> branch,
              res |-> get_path_error(io)]
        ELSE IF io = "parent_create_failed"
        THEN [cache |-> updated, file |-> file, branch |-> branch,
              res |-> "Failed to create parent directory"]
        ELSE [cache |-> updated,
              file |-> fs_write(file, FoldersToJson(<<folder>>), io),
              branch |-> branch,
              res |-> IF io \in WriteFailures THEN "Failed to write folders file" ELSE "Ok"]

\* pub fn save_folder(app_handle, folder) -> Result<(), String>
save_folder_call(cache, file, folder, io) ==
    LET updated == upsert_and_sort(cache, folder)
        branch == IF Position(cache, folder.id) # 0 THEN "update" ELSE "insert"
    IN  IF io \in PathFailures
        THEN [cache |-> updated, file |-> file, branch |-> branch,
              res |-> get_path_error(io)]
        ELSE IF io = "parent_create_failed"
        THEN [cache |-> updated, file |-> file, branch |-> branch,
              res |-> "Failed to create parent directory"]
        ELSE [cache |-> updated,
              file |-> fs_write(file, FoldersToJson(updated), io),
              branch |-> branch,
              res |-> IF io \in WriteFailures THEN "Failed to write folders file" ELSE "Ok"]

\* A delete_folder that does not compare the lengths, for comparison with
\* delete_folder_call below.
delete_folder_unchecked(cache, file, folder_id, io) ==
    LET kept == Retain(cache, folder_id)
    IN  IF io \in PathFailures
        THEN [cache |-> kept, file |-> file, branch |-> "hit",
              res |-> get_path_error(io)]
        ELSE [cache |-> kept,
              file |-> fs_write(file, FoldersToJson(kept), io),
              branch |-> "hit",
              res |-> IF io \in WriteFailures
                      THEN "Failed to write folders file after deletion" ELSE "Ok"]

\* pub fn delete_folder(app_handle, folder_id) -> Result<(), String>
delete_folder_call(cache, file, folder_id, io) ==
    LET kept == Retain(cache, folder_id)
    IN  IF Len(kept) = Len(cache)
        THEN [cache |-> kept, file |-> file, branch |-> "miss",
              res |-> "Folder with ID not found"]
        ELSE IF io \in PathFailures
        THEN [cache |-> kept, file |-> file, branch |-> "hit",
              res |-> get_path_error(io)]
        ELSE IF io = "parent_create_failed"
        THEN [cache |-> kept, file |-> file, branch |-> "hit",
              res |-> "Failed to create parent directory"]
        ELSE [cache |-> kept,
              file |-> fs_write(file, FoldersToJson(kept), io),
              branch |-> "hit",
              res |-> IF io \in WriteFailures
                      THEN "Failed to write folders file after deletion" ELSE "Ok"]

(***************************************************************************)
(* The files a process may find when it starts.                            *)
(***************************************************************************)
SeqsUpTo(S, n) == UNION { [1 .. k -> S] : k \in 0 .. n }

\* The records a file found at start is made of: any id, one of the two
\* oldest timestamps, which give every order and every repetition; records
\* with later timestamps get into a file through a save.
FileRecords(S) == { c \in S : c.timestamp \in {1, 2} }

ChatFiles ==
    {Absent, Text(Garbage)}
    \cup { Text(ChatsToJson(s)) : s \in SeqsUpTo(FileRecords(ChatInputs), MaxFileLen) }

FolderFiles ==
    {Absent, Text(Garbage)}
    \cup { Text(FoldersToJson(s)) : s \in SeqsUpTo(FileRecords(FolderInputs), MaxFileLen) }

\* a settings object written by a version that had no theme field
SettingsWithoutTheme(s) ==
    JObject([k \in SettingsFields \ {"theme"} |-> SettingsToJson(s).members[k]])

SettingsFiles ==
    {Absent, Text(Garbage)}
    \cup { Text(SettingsToJson(s)) : s \in SettingsInputs }
    \cup { Text(SettingsWithoutTheme(s)) : s \in SettingsInputs }

(***************************************************************************)
(* The state machine.  The three repositories share nothing (three statics,*)
(* three locks, three files), so a behaviour follows the calls made on one *)
(* of them, named by client, from any content of the three files, through  *)
(* any number of calls and restarts.                                       *)
(***************************************************************************)
Repositories == {"settings", "chats", "folders"}

\* What last records of a call: the handler, its argument, the branch it
\* took, its result, the value a get returned, and whether the call repeats
\* the call before it (same handler, same argument).
Returned(op, arg, branch, res, ret) ==
    [op |-> op, arg |-> arg, branch |-> branch, res |-> res, ret |-> ret,
     again |-> (last.op = op /\ last.arg = arg)]

\* no guard holds the Mutex
Free == "free"

\* Lazy::new(|| Mutex::new(None)) and Lazy::new(|| Mutex::new(Vec::new()));
\* the calls come one after the other, none runs on a thread of its own
Init ==
    /\ mutex = [repo \in Repositories |-> Free]
    /\ threads = <<>>
    /\ SETTINGS = None
    /\ CHATS = <<>>
    /\ FOLDERS = <<>>
    /\ client \in Repositories
    /\ settings_json \in IF client = "settings" THEN SettingsFiles ELSE {Absent}
    /\ chats_json \in IF client = "chats" THEN ChatFiles ELSE {Absent}
    /\ folders_json \in IF client = "folders" THEN FolderFiles ELSE {Absent}
    /\ last = [op |-> "start", arg |-> <<>>, branch |-> "", res |-> "",
               ret |-> <<>>, again |-> FALSE]
    /\ failures = 0

\* A call returns; failed tells whether one of its operating system calls
\* failed.
Return(failed) ==
    /\ failed => failures < MaxFailures
    /\ failures' = IF failed THEN failures + 1 ELSE failures
    /\ UNCHANGED <<mutex, threads>>

\* a get handler met a failure when it took one of these branches
GetFailed(r) == r.branch \in {"path_err", "read_err"}
\* a save or delete handler met a failure when the operating system failed
\* one of its calls; a delete that misses returns before it makes one
SaveFailed(r, io) == io # "ok" /\ r.branch # "miss"

\* A get_settings that writes the defaults to the file when it falls back
\* to them, for comparison with get_settings below.
get_settings_persisting_defaults ==
    /\ client = "settings"
    /\ \E io \in GetIo :
      \E r \in { get_settings_call(SETTINGS, settings_json, io) } :
            /\ SETTINGS' = r.cache
            /\ settings_json' = IF r.branch \in {"not_found", "read_err", "parse_err"}
                                THEN Text(SettingsToJson(create_default_settings))
                                ELSE settings_json
            /\ last' = Returned("get_settings", <<>>, r.branch, "value", <<r.ret>>)
            /\ Return(GetFailed(r))
    /\ UNCHANGED <<CHATS, FOLDERS, chats_json, folders_json, client>>

get_settings ==
    /\ client = "settings"
    /\ \E io \in GetIo :
      \E r \in { get_settings_call(SETTINGS, settings_json, io) } :
            /\ SETTINGS' = r.cache
            /\ last' = Returned("get_settings", <<>>, r.branch, "value", <<r.ret>>)
            /\ Return(GetFailed(r))
    /\ UNCHANGED <<CHATS, FOLDERS, settings_json, chats_json, folders_json, client>>

save_settings ==
    /\ client = "settings"
    /\ \E settings \in SettingsInputs, io \in SaveIo :
      \E r \in { save_settings_call(SETTINGS, settings_json, settings, io) } :
            /\ SETTINGS' = r.cache
            /\ settings_json' = r.file
            /\ last' = Returned("save_settings", <<settings>>, r.branch, r.res, <<>>)
            /\ Return(SaveFailed(r, io))
    /\ UNCHANGED <<CHATS, FOLDERS, chats_json, folders_json, client>>

get_all_chats ==
    /\ client = "chats"
    /\ \E io \in GetIo :
      \E r \in { get_all_chats_call(CHATS, chats_json, io) } :
            /\ CHATS' = r.cache
            /\ last' = Returned("get_all_chats", <<>>, r.branch, "value", r.ret)
            /\ Return(GetFailed(r))
    /\ UNCHANGED <<SETTINGS, FOLDERS, settings_json, chats_json, folders_json, client>>

save_chat ==
    /\ client = "chats"
    /\ \E chat \in ChatInputs, io \in SaveIo :
      \E r \in { save_chat_call(CHATS, chats_json, chat, io) } :
            /\ CHATS' = r.cache
            /\ chats_json' = r.file
            /\ last' = Returned("save_chat", <<chat>>, r.branch, r.res, <<>>)
            /\ Return(SaveFailed(r, io))
    /\ UNCHANGED <<SETTINGS, FOLDERS, settings_json, folders_json, client>>

delete_chat ==
    /\ client = "chats"
    /\ \E chat_id \in Ids, io \in SaveIo :
      \E r \in { delete_chat_call(CHATS, chats_json, chat_id, io) } :
            /\ CHATS' = r.cache
            /\ chats_json' = r.file
            /\ last' = Returned("delete_chat", <<chat_id>>, r.branch, r.res, <<>>)
            /\ Return(SaveFailed(r, io))
    /\ UNCHANGED <<SETTINGS, FOLDERS, settings_json, folders_json, client>>

get_all_folders ==
    /\ client = "folders"
    /\ \E io \in GetIo :
      \E r \in { get_all_folders_call(FOLDERS, folders_json, io) } :
            /\ FOLDERS' = r.cache
            /\ last' = Returned("get_all_folders", <<>>, r.branch, "value", r.ret)
            /\ Return(GetFailed(r))
    /\ UNCHANGED <<SETTINGS, CHATS, settings_json, chats_json, folders_json, client>>

save_folder ==
    /\ client = "folders"
    /\ \E folder \in FolderInputs, io \in FolderSaveIo :
      \E r \in { save_folder_call(FOLDERS, folders_json, folder, io) } :
            /\ FOLDERS' = r.cache
            /\ folders_json' = r.file
            /\ last' = Returned("save_folder", <<folder>>, r.branch, r.res, <<>>)
            /\ Return(SaveFailed(r, io))
    /\ UNCHANGED <<SETTINGS, CHATS, settings_json, chats_json, client>>

delete_folder ==
    /\ client = "folders"
    /\ \E folder_id \in Ids, io \in FolderSaveIo :
      \E r \in { delete_folder_call(FOLDERS, folders_json, folder_id, io) } :
            /\ FOLDERS' = r.cache
            /\ folders_json' = r.file
            /\ last' = Returned("delete_folder", <<folder_id>>, r.branch, r.res, <<>>)
            /\ Return(SaveFailed(r, io))
    /\ UNCHANGED <<SETTINGS, CHATS, settings_json, chats_json, client>>

\* The process exits and is started again: the statics are built anew, the
\* files stay.
restart ==
    /\ SETTINGS' = None
    /\ CHATS' = <<>>
    /\ FOLDERS' = <<>>
    /\ last' = Returned("restart", <<>>, "", "", <<>>)
    /\ Return(FALSE)
    /\ UNCHANGED <<settings_json, chats_json, folders_json, client>>

Next ==
    \/ get_settings
    \/ save_settings
    \/ get_all_chats
    \/ save_chat
    \/ delete_chat
    \/ get_all_folders
    \/ save_folder
    \/ delete_folder
    \/ restart

Spec == Init /\ [][Next]_vars

\* no two records of s have the same id
UniqueIds(s) == \A i, j \in 1 .. Len(s) : s[i].id = s[j].id => i = j

\* The process starts on files that hold each id at most once
InitUniqueIds ==
    /\ Init
    /\ chats_json.exists /\ ChatsFromJson(chats_json.doc) # <<>> =>
          UniqueIds(ChatsFromJson(chats_json.doc)[1])
    /\ folders_json.exists /\ FoldersFromJson(folders_json.doc) # <<>> =>
          UniqueIds(FoldersFromJson(folders_json.doc)[1])

SpecUniqueIds == InitUniqueIds /\ [][Next]_vars

(***************************************************************************)
(* A crash in the middle of fs::write.  The text of a document is written  *)
(* from its first byte on; a crash leaves the old file, or a file with a   *)
(* beginning of the new text, which may be all of it or nothing.           *)
(***************************************************************************)
\* the text to_string_pretty gives: the opening bracket, the items of the
\* array or the members of the object, the closing bracket
json_text(doc) ==
    IF doc.type = "array"
    THEN <<[type |-> "["]>> \o doc.items \o <<[type |-> "]"]>>
    ELSE <<[type |-> "{"], [type |-> "members", members |-> doc.members],
           [type |-> "}"]>>

\* A reader that takes a text without its closing bracket for the items
\* read so far, for comparison with from_str below.
from_str_lenient(text) ==
    IF Len(text) >= 1 /\ text[1].type = "["
    THEN JArray(SelectSeq(SubSeq(text, 2, Len(text)), LAMBDA x : x.type # "]"))
    ELSE IF Len(text) >= 2 /\ text[1].type = "{"
    THEN JObject(text[2].members)
    ELSE Garbage

\* serde_json::from_str: the document a text is read as; a text that ends
\* before its closing bracket is not JSON
from_str(text) ==
    IF Len(text) >= 2 /\ text[1].type = "[" /\ text[Len(text)].type = "]"
    THEN JArray(SubSeq(text, 2, Len(text) - 1))
    ELSE IF Len(text) = 3 /\ text[1].type = "{" /\ text[3].type = "}"
    THEN JObject(text[2].members)
    ELSE Garbage

\* the files an interrupted fs::write(path, json) may leave
TornWrites(file, json) ==
    {file} \cup { Text(from_str(SubSeq(json_text(json), 1, n))) :
                    n \in 0 .. Len(json_text(json)) }

\* the save and delete calls of the client's repository that reach
\* fs::write: the cache and the file they find, the cache they leave, and
\* the document they write
WritingCalls ==
    CASE client = "settings" ->
            { [cache |-> SETTINGS, file |-> settings_json, after |-> Some(s),
               json |-> SettingsToJson(s)] : s \in SettingsInputs }
      [] client = "chats" ->
            { [cache |-> CHATS, file |-> chats_json, after |-> r.cache,
               json |-> ChatsToJson(r.cache)] :
              r \in { save_chat_call(CHATS, chats_json, chat, "ok") : chat \in ChatInputs }
                  \cup { r \in { delete_chat_call(CHATS, chats_json, id, "ok") : id \in Ids } :
                           r.branch = "hit" } }
      [] client = "folders" ->
            { [cache |-> FOLDERS, file |-> folders_json, after |-> r.cache,
               json |-> FoldersToJson(r.cache)] :
              r \in { save_folder_call(FOLDERS, folders_json, folder, "ok") :
                        folder \in FolderInputs }
                  \cup { r \in { delete_folder_call(FOLDERS, folders_json, id, "ok") :
                                  id \in Ids } : r.branch = "hit" } }

\* The process dies during the fs::write of a save or delete and is started
\* again: the statics are new, the file is what the write left
crash_during_write ==
    /\ \E w \in WritingCalls : \E torn \in TornWrites(w.file, w.json) :
          /\ settings_json' = IF client = "settings" THEN torn ELSE settings_json
          /\ chats_json' = IF client = "chats" THEN torn ELSE chats_json
          /\ folders_json' = IF client = "folders" THEN torn ELSE folders_json
          /\ last' = Returned("crash", <<>>, "", "",
                               [cache |-> w.cache, file |-> w.file, after |-> w.after])
    /\ SETTINGS' = None
    /\ CHATS' = <<>>
    /\ FOLDERS' = <<>>
    /\ Return(TRUE)
    /\ UNCHANGED client

NextCrash == Next \/ crash_during_write

\* the process starts on files that hold each id at most once
SpecCrash == InitUniqueIds /\ [][NextCrash]_vars

\* The process as a client of the settings handlers alone uses it.
InitSettings == Init /\ client = "settings"

NextSettings ==
    \/ get_settings
    \/ save_settings
    \/ restart

SpecSettings == InitSettings /\ [][NextSettings]_vars

(***************************************************************************)
(* Handlers that run at the same time.  The statics are shared by every    *)
(* thread of the process, so two calls may overlap.  A thread makes one    *)
(* call; its steps follow the statements of the handler: lock the static,  *)
(* work on the value behind the guard, resolve the path, read or           *)
(* serialize, store or write, and return, which drops the guard.           *)
(***************************************************************************)
Threads == {"t1", "t2"}

SettingsOps == {"get_settings", "save_settings"}
ChatOps == {"get_all_chats", "save_chat", "delete_chat"}
FolderOps == {"get_all_folders", "save_folder", "delete_folder"}
GetOps == {"get_settings", "get_all_chats", "get_all_folders"}
SaveOps == {"save_settings", "save_chat", "save_folder"}
DeleteOps == {"delete_chat", "delete_folder"}

\* the static a handler locks: SETTINGS, CHATS or FOLDERS
RepositoryOf(op) ==
    IF op \in SettingsOps THEN "settings"
    ELSE IF op \in ChatOps THEN "chats" ELSE "folders"

\* the value behind a Mutex, and the file that goes with it
Cache(repo) ==
    IF repo = "settings" THEN SETTINGS
    ELSE IF repo = "chats" THEN CHATS ELSE FOLDERS
File(repo) ==
    IF repo = "settings" THEN settings_json
    ELSE IF repo = "chats" THEN chats_json ELSE folders_json

\* operating system answers a handler may meet
IoOf(op) ==
    IF op \in GetOps THEN GetIo
    ELSE IF op \in {"save_folder", "delete_folder"} THEN FolderSaveIo ELSE SaveIo

\* arguments a handler may be called with
ArgsOf(op) ==
    CASE op \in GetOps -> {<<>>}
      [] op = "save_settings" -> SettingsInputs
      [] op = "save_chat" -> ChatInputs
      [] op = "save_folder" -> FolderInputs
      [] op \in DeleteOps -> Ids

\* a thread about to call handler op
Calls(op) ==
    { [op |-> op, arg |-> arg, io |-> io, pc |-> "lock",
       seen |-> <<>>, local |-> <<>>, res |-> "", ret |-> <<>>] :
      arg \in ArgsOf(op), io \in IoOf(op) }

\* A lock() that does not wait for the guard to be dropped, for comparison
\* with MayLock below.
MayLockAnyway(m, repo) == TRUE

\* SETTINGS.lock() / CHATS.lock() / FOLDERS.lock() returns once no guard
\* holds the Mutex
MayLock(m, repo) == m[repo] = Free

\* A return that drops the guard only when the handler succeeded, for
\* comparison with Unlocked below.
UnlockedOnOk(m, repo, res) ==
    IF res = "Ok" THEN [m EXCEPT ![repo] = Free] ELSE m

\* The guard is a local of the handler: every return drops it, whatever the
\* result
Unlocked(m, repo, res) == [m EXCEPT ![repo] = Free]

\* the texts of the Err values
write_error(op) ==
    CASE op = "save_settings" -> "Failed to write settings file"
      [] op = "save_chat" -> "Failed to write chats file"
      [] op = "delete_chat" -> "Failed to write chats file after deletion"
      [] op = "save_folder" -> "Failed to write folders file"
      [] op = "delete_folder" -> "Failed to write folders file after deletion"
not_found_error(op) ==
    IF op = "delete_chat" THEN "Chat with ID not found" ELSE "Folder with ID not found"

\* serde_json::to_string_pretty of what the handler writes
to_string_pretty(c, cache) ==
    CASE c.op = "save_settings" -> SettingsToJson(c.arg)
      [] c.op \in ChatOps -> ChatsToJson(cache)
      [] c.op \in FolderOps -> FoldersToJson(cache)

\* the value a get handler reads from the file
load(c, file) ==
    CASE c.op = "get_settings" -> load_settings(file, c.io).value
      [] c.op = "get_all_chats" -> load_chats(file, c.io).value
      [] c.op = "get_all_folders" -> load_folders(file, c.io).value

\* what a step leaves: the cache, the file and the thread
GoesOn(c, cache, file, pc, local) ==
    [cache |-> cache, file |-> file,
     call |-> [c EXCEPT !.pc = pc, !.local = local]]
Returns(c, cache, file, res, ret) ==
    [cache |-> cache, file |-> file,
     call |-> [c EXCEPT !.pc = "return", !.res = res, !.ret = ret]]

\* The statements between lock() and the path: the cache check of a get,
\* the upsert and sort of a save, the retain and length check of a delete
cache_step(c, cache, file) ==
    CASE c.op = "get_settings" ->
            IF cache # None THEN Returns(c, cache, file, "Ok", cache[1])
            ELSE GoesOn(c, cache, file, "path", <<>>)
      [] c.op \in {"get_all_chats", "get_all_folders"} ->
            IF cache # <<>> THEN Returns(c, cache, file, "Ok", cache)
            ELSE GoesOn(c, cache, file, "path", <<>>)
      [] c.op = "save_settings" -> GoesOn(c, Some(c.arg), file, "path", <<>>)
      [] c.op \in {"save_chat", "save_folder"} ->
            GoesOn(c, upsert_and_sort(cache, c.arg), file, "path", <<>>)
      [] c.op \in DeleteOps ->
            LET kept == Retain(cache, c.arg)
            IN  IF Len(kept) = Len(cache)
                THEN Returns(c, kept, file, not_found_error(c.op), <<>>)
                ELSE GoesOn(c, kept, file, "path", <<>>)

\* get_*_path(&app_handle), and the parent directory of the folders file
path_step(c, cache, file) ==
    IF c.io \in PathFailures
    THEN CASE c.op = "get_settings" ->
                 Returns(c, Some(create_default_settings), file, "Ok",
                         create_default_settings)
           [] c.op \in {"get_all_chats", "get_all_folders"} ->
                 Returns(c, cache, file, "Ok", <<>>)
           [] OTHER -> Returns(c, cache, file, get_path_error(c.io), <<>>)
    ELSE IF c.io = "parent_create_failed"
    THEN Returns(c, cache, file, "Failed to create parent directory", <<>>)
    ELSE GoesOn(c, cache, file, "file", <<>>)

\* a get reads and parses the file, a save or delete serializes
file_step(c, cache, file) ==
    IF c.op \in GetOps
    THEN GoesOn(c, cache, file, "finish", load(c, file))
    ELSE GoesOn(c, cache, file, "finish", to_string_pretty(c, cache))

\* a get stores what it read and returns it, sorted when it is a vector;
\* a save or delete writes the text it serialized
finish_step(c, cache, file) ==
    CASE c.op = "get_settings" -> Returns(c, Some(c.local), file, "Ok", c.local)
      [] c.op \in {"get_all_chats", "get_all_folders"} ->
            Returns(c, c.local, file, "Ok", SortByTimestampDesc(c.local))
      [] OTHER ->
            Returns(c, cache, fs_write(file, c.local, c.io),
                    IF c.io \in WriteFailures THEN write_error(c.op) ELSE "Ok",
                    <<>>)

\* a step of the handler behind its guard
Step(c, cache, file) ==
    CASE c.pc = "cache" -> cache_step(c, cache, file)
      [] c.pc = "path" -> path_step(c, cache, file)
      [] c.pc = "file" -> file_step(c, cache, file)
      [] c.pc = "finish" -> finish_step(c, cache, file)

\* A step whose file is one and the same for the three repositories, for
\* comparison with Stored below.
StoredInOneFile(repo, r) ==
    /\ SETTINGS' = IF repo = "settings" THEN r.cache ELSE SETTINGS
    /\ CHATS' = IF repo = "chats" THEN r.cache ELSE CHATS
    /\ FOLDERS' = IF repo = "folders" THEN r.cache ELSE FOLDERS
    /\ settings_json' = r.file
    /\ chats_json' = r.file
    /\ folders_json' = r.file

\* the statics and files after a step on repository repo
Stored(repo, r) ==
    /\ SETTINGS' = IF repo = "settings" THEN r.cache ELSE SETTINGS
    /\ CHATS' = IF repo = "chats" THEN r.cache ELSE CHATS
    /\ FOLDERS' = IF repo = "folders" THEN r.cache ELSE FOLDERS
    /\ settings_json' = IF repo = "settings" THEN r.file ELSE settings_json
    /\ chats_json' = IF repo = "chats" THEN r.file ELSE chats_json
    /\ folders_json' = IF repo = "folders" THEN r.file ELSE folders_json

\* let x = X.lock().unwrap(): the thread waits until the Mutex is free; it
\* notes what it finds behind the guard
lock(t) ==
    LET repo == RepositoryOf(threads[t].op)
    IN  /\ threads[t].pc = "lock"
        /\ MayLock(mutex, repo)
        /\ mutex' = [mutex EXCEPT ![repo] = t]
        /\ threads' = [threads EXCEPT ![t].pc = "cache",
                          ![t].seen = <<Cache(repo), File(repo)>>]
        /\ UNCHANGED <<SETTINGS, CHATS, FOLDERS, settings_json, chats_json,
                       folders_json, last, client, failures>>

\* the thread runs the next statements of its handler
run(t, pc) ==
    /\ threads[t].pc = pc
    /\ \E r \in { Step(threads[t], Cache(RepositoryOf(threads[t].op)),
                       File(RepositoryOf(threads[t].op))) } :
          /\ Stored(RepositoryOf(threads[t].op), r)
          /\ threads' = [threads EXCEPT ![t] = r.call]
    /\ UNCHANGED <<last, client, failures, mutex>>

access_cache(t) == run(t, "cache")
resolve_path(t) == run(t, "path")
read_or_serialize(t) == run(t, "file")
store_or_write(t) == run(t, "finish")

\* the handler returns and its guard goes out of scope
unlock(t) ==
    /\ threads[t].pc = "return"
    /\ mutex' = Unlocked(mutex, RepositoryOf(threads[t].op), threads[t].res)
    /\ threads' = [threads EXCEPT ![t].pc = "done"]
    /\ UNCHANGED <<SETTINGS, CHATS, FOLDERS, settings_json, chats_json,
                   folders_json, last, client, failures>>

ThreadNext(t) ==
    \/ lock(t)
    \/ access_cache(t)
    \/ resolve_path(t)
    \/ read_or_serialize(t)
    \/ store_or_write(t)
    \/ unlock(t)

NextThreads == \E t \in Threads : ThreadNext(t)

\* at most MaxFailures of the calls meet a failing operating system call
FewFailures(calls) ==
    Cardinality({ t \in Threads : calls[t].io # "ok" }) <= MaxFailures

\* Two calls on the chats at the same time; the file holds at most one record
InitChatThreads ==
    /\ SETTINGS = None
    /\ CHATS = <<>>
    /\ FOLDERS = <<>>
    /\ client = "chats"
    /\ settings_json = Absent
    /\ chats_json \in {Absent, Text(Garbage)} \cup
                     { Text(ChatsToJson(chats)) :
                         chats \in SeqsUpTo(FileRecords(ChatInputs), 1) }
    /\ folders_json = Absent
    /\ last = [op |-> "start", arg |-> <<>>, branch |-> "", res |-> "",
               ret |-> <<>>, again |-> FALSE]
    /\ failures = 0
    /\ mutex = [repo \in Repositories |-> Free]
    /\ threads \in { calls \in [Threads -> UNION { Calls(op) : op \in ChatOps }] :
                       FewFailures(calls) }

SpecChatThreads == InitChatThreads /\ [][NextThreads]_vars

\* the calls of the lock specification, which save the oldest records only
AllOps == SettingsOps \cup ChatOps \cup FolderOps
OldestCalls(ops) ==
    { c \in UNION { Calls(op) : op \in ops } :
        /\ c.op = "save_settings" => c.arg = create_default_settings
        /\ c.op \in {"save_chat", "save_folder"} => c.arg.timestamp = 1 }

\* Two calls on any of the three statics at the same time: the first thread
\* calls a handler of the client's repository, the second any handler; no
\* file exists
InitLocks ==
    /\ SETTINGS = None
    /\ CHATS = <<>>
    /\ FOLDERS = <<>>
    /\ client \in Repositories
    /\ settings_json = Absent
    /\ chats_json = Absent
    /\ folders_json = Absent
    /\ last = [op |-> "start", arg |-> <<>>, branch |-> "", res |-> "",
               ret |-> <<>>, again |-> FALSE]
    /\ failures = 0
    /\ mutex = [repo \in Repositories |-> Free]
    /\ threads \in
          { calls \in [Threads -> OldestCalls(AllOps)] :
              /\ RepositoryOf(calls["t1"].op) = client
              /\ FewFailures(calls) }

SpecLocks == InitLocks /\ [][NextThreads]_vars

\* The scheduler runs every thread that can take a step, and a call into
\* the operating system returns.
FairSpecLocks == SpecLocks /\ \A t \in Threads : WF_vars(ThreadNext(t))

(***************************************************************************)
(* execute_command.  The command line and the output of the child are      *)
(* short texts over a few characters; the operating system's part is the   *)
(* current directory of the process, the directories that exist, and what  *)
(* becomes of the child: it cannot be launched, or it exits with output.   *)
(***************************************************************************)
MaxCommandLen == 3
MaxOutputLen == 1

\* char::is_whitespace, for the characters of the model
Whitespace == {" ", "\t"}
CommandChars == {"x"} \cup Whitespace

\* the texts of at most n characters
RECURSIVE StringsUpTo(_, _)
StringsUpTo(chars, n) ==
    IF n = 0 THEN {""}
    ELSE LET shorter == StringsUpTo(chars, n - 1)
         IN  shorter \cup { s \o ch : s \in shorter, ch \in chars }

Commands == StringsUpTo(CommandChars, MaxCommandLen)

\* the tokens of s from character i on, after the characters token of a
\* token that has begun
RECURSIVE SplitFrom(_, _, _, _)
SplitFrom(s, i, token, separators) ==
    IF i > Len(s) THEN IF token = "" THEN <<>> ELSE <<token>>
    ELSE LET ch == SubSeq(s, i, i)
         IN  IF ch \in separators
             THEN IF token = "" THEN SplitFrom(s, i + 1, "", separators)
                  ELSE <<token>> \o SplitFrom(s, i + 1, "", separators)
             ELSE SplitFrom(s, i + 1, token \o ch, separators)

\* A split at spaces only, for comparison with split_whitespace below.
split_spaces(s) == SplitFrom(s, 1, "", {" "})

\* command.split_whitespace()
split_whitespace(s) == SplitFrom(s, 1, "", Whitespace)

\* str::contains
Contains(s, sub) ==
    \E i \in 1 .. Len(s) - Len(sub) + 1 : SubSeq(s, i, i + Len(sub) - 1) = sub

\* The bytes a child writes: a byte of ASCII text, or a byte that is not
\* valid UTF-8
Bytes == {"o", "0xFF"}
Outputs == SeqsUpTo(Bytes, MaxOutputLen)

\* String::from_utf8_lossy: an invalid byte becomes U+FFFD
RECURSIVE from_utf8_lossy(_)
from_utf8_lossy(bytes) ==
    IF bytes = <<>> THEN ""
    ELSE (IF Head(bytes) = "0xFF" THEN "U+FFFD" ELSE Head(bytes))
            \o from_utf8_lossy(Tail(bytes))

\* ExitStatus: success() and its Display text
ExitStatuses ==
    { [success |-> TRUE, text |-> "exit status: 0"],
      [success |-> FALSE, text |-> "exit status: 1"],
      [success |-> FALSE, text |-> "signal: 9 (SIGKILL)"] }

\* the Display text of the io::Error of a child that cannot be launched
LaunchErrors ==
    { "No such file or directory (os error 2)",
      "program not found",
      "Permission denied (os error 13)",
      "Exec format error (os error 8)" }

\* cmd.output(): Err(e), or Ok(output) once the child has exited
ChildOutcomes ==
    { [launched |-> FALSE, error |-> e] : e \in LaunchErrors } \cup
    { [launched |-> TRUE, stdout |-> out, stderr |-> err, status |-> st] :
        out \in Outputs, err \in Outputs, st \in ExitStatuses }

\* the directories that exist, and std::env::current_dir()
Directories == {"/", "/work"}
CurrentDirs == {Some("/"), None}
WorkingDirs == {None, Some("/work"), Some("/gone")}

\* pub fn get_cwd() -> String
get_cwd(current_dir) == IF current_dir = None THEN "Unknown" ELSE current_dir[1]

\* A message that is the stderr text alone, for comparison with
\* failed_with_error below.
stderr_alone(stderr) == stderr

\* format!("Command failed with error:\n{}", stderr)
failed_with_error(stderr) == "Command failed with error:\n" \o stderr

\* A classification that looks at the exit status first, for comparison
\* with classify below.
classify_by_status(output) ==
    LET stdout == from_utf8_lossy(output.stdout)
        stderr == from_utf8_lossy(output.stderr)
    IN  IF ~output.status.success
        THEN IF stderr # ""
             THEN [res |-> "Err", message |-> failed_with_error(stderr)]
             ELSE [res |-> "Err",
                   message |-> "Command failed with no output. Exit code: "
                                  \o output.status.text]
        ELSE IF stderr # ""
        THEN [res |-> "Ok", message |-> stdout \o "\n\nWarnings:\n" \o stderr]
        ELSE [res |-> "Ok", message |-> stdout]

\* execute_command, the Ok(output) arm
classify(output) ==
    LET stdout == from_utf8_lossy(output.stdout)
        stderr == from_utf8_lossy(output.stderr)
    IN  IF stderr # ""
        THEN IF output.status.success
             THEN [res |-> "Ok", message |-> stdout \o "\n\nWarnings:\n" \o stderr]
             ELSE [res |-> "Err", message |-> failed_with_error(stderr)]
        ELSE IF stdout = "" /\ ~output.status.success
        THEN [res |-> "Err",
              message |-> "Command failed with no output. Exit code: "
                             \o output.status.text]
        ELSE [res |-> "Ok", message |-> stdout]

\* A launch failure reported with the text of the operating system alone,
\* for comparison with launch_error below.
launch_error_raw(program, error_msg) == "Failed to execute command: " \o error_msg

\* execute_command, the Err(e) arm
launch_error(program, error_msg) ==
    IF Contains(error_msg, "not found") \/ Contains(error_msg, "No such file or directory")
    THEN "Program '" \o program
            \o "' not found. Make sure it is installed and in your system PATH."
    ELSE IF Contains(error_msg, "permission denied")
    THEN "Permission denied when trying to execute '" \o program
            \o "'. Check file permissions."
    ELSE "Failed to execute command: " \o error_msg

\* A working directory that is set without a look at the file system, for
\* comparison with working_dir below.
working_dir_unchecked(dir) == Some(dir)

\* if Path::new(&cwd).exists() { cmd.current_dir(&cwd) }: the directory the
\* child is given, None when it inherits the directory of the process
working_dir(dir) == IF dir \in Directories THEN Some(dir) ELSE None

\* pub async fn execute_command(command, cwd) -> Result<String, String>:
\* the branch it takes, the result, and the children it launched, each with
\* its program, its arguments and the directory set with current_dir
execute_command_call(command, cwd, os) ==
    LET dir == IF cwd = None THEN get_cwd(os.current_dir) ELSE cwd[1]
        parts == split_whitespace(command)
    IN  IF parts = <<>>
        THEN [branch |-> "empty", res |-> "Err", message |-> "Empty command",
              children |-> <<>>]
        ELSE LET child == [program |-> Head(parts), args |-> Tail(parts),
                           current_dir |-> working_dir(dir)]
             IN  IF ~os.child.launched
                 THEN [branch |-> "launch_err", res |-> "Err",
                       message |-> launch_error(Head(parts), os.child.error),
                       children |-> <<>>]
                 ELSE [branch |-> "exited",
                       res |-> classify(os.child).res,
                       message |-> classify(os.child).message,
                       children |-> <<child>>]

\* an execute_command call on a thread, and the answers of the operating
\* system it will meet
CommandCalls ==
    { [op |-> "execute_command", arg |-> [command |-> command, cwd |-> cwd],
       io |-> [current_dir |-> current_dir, child |-> child], pc |-> "split",
       seen |-> <<>>, local |-> <<>>, res |-> "", ret |-> ""] :
      command \in Commands, cwd \in WorkingDirs,
      current_dir \in CurrentDirs, child \in ChildOutcomes }

\* the whole call of thread t
Executed(t) ==
    execute_command_call(threads[t].arg.command, threads[t].arg.cwd, threads[t].io)

\* the thread gives its result and ends
Finished(t, r) ==
    threads' = [threads EXCEPT ![t].pc = "done", ![t].res = r.res,
                   ![t].ret = r.message, ![t].local = r.children]

\* command.split_whitespace() and parts.next(): Err("Empty command") when
\* there is no token
split_command(t) ==
    /\ threads[t].pc = "split"
    /\ \E r \in { Executed(t) } :
          IF r.branch = "empty" THEN Finished(t, r)
          ELSE threads' = [threads EXCEPT ![t].pc = "spawn"]
    /\ UNCHANGED <<SETTINGS, CHATS, FOLDERS, settings_json, chats_json,
                   folders_json, last, client, failures, mutex>>

\* A launch that first looks the program up in the lists of the cached
\* settings, for comparison with spawn_child below.
spawn_child_if_allowed(t) ==
    /\ threads[t].pc = "spawn"
    /\ \E r \in { Executed(t) } :
          LET program == Head(split_whitespace(threads[t].arg.command))
              listed(commands) == \E i \in 1 .. Len(commands) : commands[i] = program
              refused == /\ SETTINGS # None
                         /\ \/ listed(SETTINGS[1].blacklisted_commands)
                            \/ /\ SETTINGS[1].whitelisted_commands # <<>>
                               /\ ~listed(SETTINGS[1].whitelisted_commands)
          IN  IF refused
              THEN Finished(t, [res |-> "Err", message |-> "Command not allowed",
                                children |-> <<>>])
              ELSE IF r.branch = "launch_err" THEN Finished(t, r)
              ELSE threads' = [threads EXCEPT ![t].pc = "wait", ![t].local = r.children]
    /\ UNCHANGED <<SETTINGS, CHATS, FOLDERS, settings_json, chats_json,
                   folders_json, last, client, failures, mutex>>

\* A launch made behind the guard of SETTINGS, which is kept while the child
\* runs, for comparison with spawn_child below.
spawn_child_locked(t) ==
    /\ threads[t].pc = "spawn"
    /\ mutex["settings"] = Free
    /\ mutex' = [mutex EXCEPT !["settings"] = t]
    /\ \E r \in { Executed(t) } :
          IF r.branch = "launch_err" THEN Finished(t, r)
          ELSE threads' = [threads EXCEPT ![t].pc = "wait", ![t].local = r.children]
    /\ UNCHANGED <<SETTINGS, CHATS, FOLDERS, settings_json, chats_json,
                   folders_json, last, client, failures>>

\* Command::new(program), args, current_dir, and the launch in cmd.output()
spawn_child(t) ==
    /\ threads[t].pc = "spawn"
    /\ \E r \in { Executed(t) } :
          IF r.branch = "launch_err" THEN Finished(t, r)
          ELSE threads' = [threads EXCEPT ![t].pc = "wait", ![t].local = r.children]
    /\ UNCHANGED <<SETTINGS, CHATS, FOLDERS, settings_json, chats_json,
                   folders_json, last, client, failures, mutex>>

\* cmd.output() returns Ok(output): the child has exited
child_exited(t) ==
    /\ threads[t].pc = "wait"
    /\ Finished(t, Executed(t))
    /\ UNCHANGED <<SETTINGS, CHATS, FOLDERS, settings_json, chats_json,
                   folders_json, last, client, failures, mutex>>

NextCommand ==
    \E t \in DOMAIN threads : split_command(t) \/ spawn_child(t) \/ child_exited(t)

\* One call of execute_command; the repositories are as the process starts
InitCommand ==
    /\ SETTINGS = None
    /\ CHATS = <<>>
    /\ FOLDERS = <<>>
    /\ client = "command"
    /\ settings_json = Absent
    /\ chats_json = Absent
    /\ folders_json = Absent
    /\ last = [op |-> "start", arg |-> <<>>, branch |-> "", res |-> "",
               ret |-> <<>>, again |-> FALSE]
    /\ failures = 0
    /\ mutex = [repo \in Repositories |-> Free]
    /\ threads \in [{"t1"} -> CommandCalls]

SpecCommand == InitCommand /\ [][NextCommand]_vars

\* One call of execute_command in a process whose settings are cached, or
\* persisted and not yet read, or neither
InitCommandSettings ==
    /\ \E found \in {<<None, Absent>>}
             \cup { <<Some(s), Text(SettingsToJson(s))>> : s \in SettingsInputs }
             \cup { <<None, Text(SettingsToJson(s))>> : s \in SettingsInputs } :
          /\ SETTINGS = found[1]
          /\ settings_json = found[2]
    /\ CHATS = <<>>
    /\ FOLDERS = <<>>
    /\ client = "command"
    /\ chats_json = Absent
    /\ folders_json = Absent
    /\ last = [op |-> "start", arg |-> <<>>, branch |-> "", res |-> "",
               ret |-> <<>>, again |-> FALSE]
    /\ failures = 0
    /\ mutex = [repo \in Repositories |-> Free]
    /\ threads \in [{"t1"} -> { c \in CommandCalls : c.io.current_dir # None }]

SpecCommandSettings == InitCommandSettings /\ [][NextCommand]_vars

\* A call of execute_command on thread t1, whose child writes nothing to
\* stderr, and a call of a repository handler on thread t2; no file exists
InitCommandAndHandler ==
    /\ SETTINGS = None
    /\ CHATS = <<>>
    /\ FOLDERS = <<>>
    /\ client = "command"
    /\ settings_json = Absent
    /\ chats_json = Absent
    /\ folders_json = Absent
    /\ last = [op |-> "start", arg |-> <<>>, branch |-> "", res |-> "",
               ret |-> <<>>, again |-> FALSE]
    /\ failures = 0
    /\ mutex = [repo \in Repositories |-> Free]
    /\ \E command \in { c \in CommandCalls :
                          /\ c.arg = [command |-> "x", cwd |-> None]
                          /\ c.io.current_dir # None
                          /\ c.io.child.launched => c.io.child.stderr = <<>> } :
          \E handler \in OldestCalls(AllOps) :
             threads = [t \in Threads |-> IF t = "t1" THEN command ELSE handler]

NextCommandAndHandler == NextCommand \/ NextThreads

SpecCommandAndHandler == InitCommandAndHandler /\ [][NextCommandAndHandler]_vars

\* The scheduler runs the thread of the handler; nothing makes the child of
\* the command exit.
FairSpecCommandAndHandler == SpecCommandAndHandler /\ WF_vars(ThreadNext("t2"))

(***************************************************************************)
(* The chats and the folders repositories side by side.  Every call is     *)
(* made on both: get_all_chats with get_all_folders, save_chat with        *)
(* save_folder of the same id and timestamp, delete_chat with              *)
(* delete_folder of the same id, and the operating system fails the same   *)
(* call of both, the path, the read or the write.  The two files hold at   *)
(* start the records of the same ids and timestamps in the same order.     *)
(***************************************************************************)
\* a RustSavedChat and a RustFolder of the same id and timestamp
SameIdAndTimestamp ==
    { both \in ChatInputs \X FolderInputs :
        /\ both[1].id = both[2].id
        /\ both[1].timestamp = both[2].timestamp }

\* chats.json and folders.json at start: both absent, both without a JSON
\* value, or both an array of the same ids and timestamps
FilesOfBoth ==
    {<<Absent, Absent>>, <<Text(Garbage), Text(Garbage)>>}
    \cup { <<Text(ChatsToJson([i \in DOMAIN s |-> s[i][1]])),
             Text(FoldersToJson([i \in DOMAIN s |-> s[i][2]]))>> :
             s \in SeqsUpTo({ both \in SameIdAndTimestamp :
                                both[1] \in FileRecords(ChatInputs) }, MaxFileLen) }

InitBoth ==
    /\ mutex = [repo \in Repositories |-> Free]
    /\ threads = <<>>
    /\ SETTINGS = None
    /\ CHATS = <<>>
    /\ FOLDERS = <<>>
    /\ client = "chats and folders"
    /\ settings_json = Absent
    /\ \E found \in FilesOfBoth :
          /\ chats_json = found[1]
          /\ folders_json = found[2]
    /\ last = [op |-> "start", arg |-> <<>>, branch |-> "", res |-> "",
               ret |-> <<>>, again |-> FALSE]
    /\ failures = 0

\* what last records of a call made on both: the call on chats, and the
\* branch, result and returned value of the call on folders
ReturnedByBoth(op, arg, chats, folders) ==
    [op |-> op, arg |-> arg, branch |-> chats.branch, res |-> chats.res,
     ret |-> chats.ret, again |-> (last.op = op /\ last.arg = arg),
     folders |-> folders]

get_all_chats_and_folders ==
    /\ \E io \in GetIo :
      \E c \in { get_all_chats_call(CHATS, chats_json, io) },
         f \in { get_all_folders_call(FOLDERS, folders_json, io) } :
            /\ CHATS' = c.cache
            /\ FOLDERS' = f.cache
            /\ last' = ReturnedByBoth("get_all", <<>>,
                           [branch |-> c.branch, res |-> "value", ret |-> c.ret],
                           [branch |-> f.branch, res |-> "value", ret |-> f.ret])
            /\ Return(GetFailed(c))
    /\ UNCHANGED <<SETTINGS, settings_json, chats_json, folders_json, client>>

save_chat_and_folder ==
    /\ \E both \in SameIdAndTimestamp, io \in SaveIo :
      \E c \in { save_chat_call(CHATS, chats_json, both[1], io) },
         f \in { save_folder_call(FOLDERS, folders_json, both[2], io) } :
            /\ CHATS' = c.cache
            /\ chats_json' = c.file
            /\ FOLDERS' = f.cache
            /\ folders_json' = f.file
            /\ last' = ReturnedByBoth("save", <<both[1].id, both[1].timestamp>>,
                           [branch |-> c.branch, res |-> c.res, ret |-> <<>>],
                           [branch |-> f.branch, res |-> f.res, ret |-> <<>>])
            /\ Return(SaveFailed(c, io))
    /\ UNCHANGED <<SETTINGS, settings_json, client>>

delete_chat_and_folder ==
    /\ \E id \in Ids, io \in SaveIo :
      \E c \in { delete_chat_call(CHATS, chats_json, id, io) },
         f \in { delete_folder_call(FOLDERS, folders_json, id, io) } :
            /\ CHATS' = c.cache
            /\ chats_json' = c.file
            /\ FOLDERS' = f.cache
            /\ folders_json' = f.file
            /\ last' = ReturnedByBoth("delete", <<id>>,
                           [branch |-> c.branch, res |-> c.res, ret |-> <<>>],
                           [branch |-> f.branch, res |-> f.res, ret |-> <<>>])
            /\ Return(SaveFailed(c, io))
    /\ UNCHANGED <<SETTINGS, settings_json, client>>

NextBoth ==
    \/ get_all_chats_and_folders
    \/ save_chat_and_folder
    \/ delete_chat_and_folder
    \/ restart

SpecBoth == InitBoth /\ [][NextBoth]_vars

(***************************************************************************)
(* Vocabulary of the properties.                                           *)
(***************************************************************************)
\* How many records of s carry the id.
CountId(s, id) == Cardinality({ i \in 1 .. Len(s) : s[i].id = id })

\* How many times the record r occurs in s.
CountRec(s, r) == Cardinality({ i \in 1 .. Len(s) : s[i] = r })

\* The ids and timestamps of the records of s, in the order of s.
IdsAndTimestamps(s) == [i \in DOMAIN s |-> <<s[i].id, s[i].timestamp>>]

\* The records of s, as a set.
Records(s) == { s[i] : i \in 1 .. Len(s) }

\* s is ordered newest first.
IsSortedDesc(s) == \A i \in 1 .. Len(s) - 1 : s[i].timestamp >= s[i + 1].timestamp

\* s without the records that carry the id, the others in their order.
RECURSIVE Without(_, _)
Without(s, id) ==
    IF s = <<>> THEN <<>>
    ELSE IF Head(s).id = id THEN Without(Tail(s), id)
    ELSE <<Head(s)>> \o Without(Tail(s), id)

\* The collection a file holds: its records when it exists and parses, no
\* record otherwise.
StoredChats(file) ==
    IF file.exists /\ ChatsFromJson(file.doc) # <<>>
    THEN ChatsFromJson(file.doc)[1] ELSE <<>>

StoredFolders(file) ==
    IF file.exists /\ FoldersFromJson(file.doc) # <<>>
    THEN FoldersFromJson(file.doc)[1] ELSE <<>>

(***************************************************************************)
(* C1.  A successful save_chat / save_folder is an upsert on the persisted *)
(* file: afterwards the file holds the saved record and every record that  *)
(* was in the file before under another id, also when the save is the      *)
(* first operation of the process.                                         *)
(***************************************************************************)
C1_SaveIsUpsertOnFile ==
    [][ /\ (last'.op = "save_chat" /\ last'.res = "Ok") =>
            /\ last'.arg[1] \in Records(StoredChats(chats_json'))
            /\ \A r \in Records(StoredChats(chats_json)) :
                  r.id # last'.arg[1].id => r \in Records(StoredChats(chats_json'))
        /\ (last'.op = "save_folder" /\ last'.res = "Ok") =>
            /\ last'.arg[1] \in Records(StoredFolders(folders_json'))
            /\ \A r \in Records(StoredFolders(folders_json)) :
                  r.id # last'.arg[1].id => r \in Records(StoredFolders(folders_json'))
      ]_vars

(***************************************************************************)
(* C2.  Every value get_all_chats / get_all_folders returns is ordered by  *)
(* timestamp, newest first, whether it comes from the file or from the     *)
(* cache, and whatever the file held when the process started.             *)
(***************************************************************************)
C2_GetAllReturnsSorted ==
    last.op \in {"get_all_chats", "get_all_folders"} => IsSortedDesc(last.ret)

(***************************************************************************)
(* C3.  Upsert idempotence.  As claimed, for any in-memory collection:     *)
(* when save_chat(item) (save_folder(item)) is applied twice in a row and  *)
(* both calls return Ok, the second leaves the in-memory collection and    *)
(* the file as the first left them, and the collection holds exactly one   *)
(* record with item.id, equal to item.                                     *)
(***************************************************************************)
C3_IdempotentAnyCollection ==
    [][ /\ (last'.op = "save_chat" /\ last'.again
                /\ last.res = "Ok" /\ last'.res = "Ok") =>
            /\ CHATS' = CHATS
            /\ chats_json' = chats_json
            /\ CountId(CHATS', last'.arg[1].id) = 1
            /\ last'.arg[1] \in Records(CHATS')
        /\ (last'.op = "save_folder" /\ last'.again
                /\ last.res = "Ok" /\ last'.res = "Ok") =>
            /\ FOLDERS' = FOLDERS
            /\ folders_json' = folders_json
            /\ CountId(FOLDERS', last'.arg[1].id) = 1
            /\ last'.arg[1] \in Records(FOLDERS')
      ]_vars

\* C3, amended: provided the in-memory collection holds at most one record
\* with item.id when save_chat(item) (save_folder(item)) is called, the
\* collection afterwards holds exactly one record with item.id, equal to
\* item; and a second, identical call made next leaves the in-memory
\* collection as it is and, when both calls return Ok, the file as it is.
C3_IdempotentUniqueId ==
    [][ /\ (last'.op = "save_chat" /\ CountId(CHATS, last'.arg[1].id) <= 1) =>
            /\ CountId(CHATS', last'.arg[1].id) = 1
            /\ last'.arg[1] \in Records(CHATS')
            /\ last'.again => CHATS' = CHATS
            /\ (last'.again /\ last.res = "Ok" /\ last'.res = "Ok") =>
                  chats_json' = chats_json
        /\ (last'.op = "save_folder" /\ CountId(FOLDERS, last'.arg[1].id) <= 1) =>
            /\ CountId(FOLDERS', last'.arg[1].id) = 1
            /\ last'.arg[1] \in Records(FOLDERS')
            /\ last'.again => FOLDERS' = FOLDERS
            /\ (last'.again /\ last.res = "Ok" /\ last'.res = "Ok") =>
                  folders_json' = folders_json
      ]_vars

\* C3's case: the same chat saved twice in a row, Ok both times, the
\* second being an update, in a collection of two records with distinct ids.
C3_SavedTwice ==
    /\ last.op = "save_chat"
    /\ last.again
    /\ last.res = "Ok"
    /\ last.branch = "update"
    /\ Len(CHATS) = 2
    /\ CountId(CHATS, last.arg[1].id) = 1
    /\ StoredChats(chats_json) = CHATS

(***************************************************************************)
(* C4.  Update of an existing record.  As claimed: when the in-memory      *)
(* collection holds a record with c.id, save_chat(c) leaves the number of  *)
(* records unchanged, leaves every record with another id unchanged, and   *)
(* afterwards exactly one record has c.id and it is c, field for field.    *)
(***************************************************************************)
C4_UpdateWhenIdHeld ==
    [][ (last'.op = "save_chat" /\ CountId(CHATS, last'.arg[1].id) >= 1) =>
            /\ Len(CHATS') = Len(CHATS)
            /\ last'.arg[1] \in Records(CHATS')
            /\ CountId(CHATS', last'.arg[1].id) = 1
            /\ \A r \in Records(CHATS) \cup Records(CHATS') :
                  r.id # last'.arg[1].id => CountRec(CHATS', r) = CountRec(CHATS, r)
      ]_vars

\* C4, amended: the same, when the in-memory collection holds exactly one
\* record with c.id.
C4_UpdateWhenIdHeldOnce ==
    [][ (last'.op = "save_chat" /\ CountId(CHATS, last'.arg[1].id) = 1) =>
            /\ Len(CHATS') = Len(CHATS)
            /\ last'.arg[1] \in Records(CHATS')
            /\ CountId(CHATS', last'.arg[1].id) = 1
            /\ \A r \in Records(CHATS) \cup Records(CHATS') :
                  r.id # last'.arg[1].id => CountRec(CHATS', r) = CountRec(CHATS, r)
      ]_vars

\* C4's case: save_chat has updated the one record of its id, not repeating
\* the call before it, with a chat that carries a title and a message, in a
\* collection that holds another record too.
C4_Updated ==
    /\ last.op = "save_chat"
    /\ last.branch = "update"
    /\ ~last.again
    /\ last.arg[1].title # None
    /\ last.arg[1].messages # <<>>
    /\ Len(CHATS) = 2
    /\ CountId(CHATS, last.arg[1].id) = 1
    /\ last.arg[1] \in Records(CHATS)

(***************************************************************************)
(* C5.  Insert of a new record: when no record of the in-memory collection *)
(* has c.id, save_chat(c) makes the collection one record longer, keeps    *)
(* every previous record, holds c, and leaves the collection ordered       *)
(* newest first wherever c's timestamp falls.                              *)
(***************************************************************************)
C5_InsertAddsOneSorted ==
    [][ (last'.op = "save_chat" /\ CountId(CHATS, last'.arg[1].id) = 0) =>
            /\ Len(CHATS') = Len(CHATS) + 1
            /\ \A r \in Records(CHATS) \cup {last'.arg[1]} :
                  CountRec(CHATS', r) =
                      CountRec(CHATS, r) + (IF r = last'.arg[1] THEN 1 ELSE 0)
            /\ IsSortedDesc(CHATS')
      ]_vars

\* C5's case: save_chat has inserted a chat newer than the record already
\* held, and the chat stands first.
C5_InsertedNewest ==
    /\ last.op = "save_chat"
    /\ last.branch = "insert"
    /\ Len(CHATS) = 2
    /\ CHATS[1] = last.arg[1]
    /\ CHATS[1].timestamp > CHATS[2].timestamp

(***************************************************************************)
(* C6.  Delete-miss: delete_chat(id) (delete_folder(id)) with an id that   *)
(* no record of the in-memory collection has returns the not-found error,  *)
(* leaves the in-memory collection unchanged and leaves the file as it is. *)
(***************************************************************************)
C6_DeleteMiss ==
    [][ /\ (last'.op = "delete_chat" /\ CountId(CHATS, last'.arg[1]) = 0) =>
            /\ last'.res = "Chat with ID not found"
            /\ CHATS' = CHATS
            /\ chats_json' = chats_json
        /\ (last'.op = "delete_folder" /\ CountId(FOLDERS, last'.arg[1]) = 0) =>
            /\ last'.res = "Folder with ID not found"
            /\ FOLDERS' = FOLDERS
            /\ folders_json' = folders_json
      ]_vars

\* C6's case: delete_chat has missed in a collection that holds a record,
\* beside a file that holds something else than the collection.
C6_Missed ==
    /\ last.op = "delete_chat"
    /\ last.branch = "miss"
    /\ Len(CHATS) = 1
    /\ chats_json.exists
    /\ StoredChats(chats_json) # CHATS

(***************************************************************************)
(* C7.  Delete-hit: delete_chat(id) (delete_folder(id)) on an id present   *)
(* in the in-memory collection removes every record with that id and       *)
(* nothing else, the records of other ids staying in their order; it does  *)
(* not return not-found; and when it returns Ok the file holds the reduced *)
(* collection.                                                             *)
(***************************************************************************)
C7_DeleteHit ==
    [][ /\ (last'.op = "delete_chat" /\ CountId(CHATS, last'.arg[1]) >= 1) =>
            /\ CHATS' = Without(CHATS, last'.arg[1])
            /\ last'.res # "Chat with ID not found"
            /\ last'.res = "Ok" =>
                  /\ chats_json'.exists
                  /\ ChatsFromJson(chats_json'.doc) = <<CHATS'>>
        /\ (last'.op = "delete_folder" /\ CountId(FOLDERS, last'.arg[1]) >= 1) =>
            /\ FOLDERS' = Without(FOLDERS, last'.arg[1])
            /\ last'.res # "Folder with ID not found"
            /\ last'.res = "Ok" =>
                  /\ folders_json'.exists
                  /\ FoldersFromJson(folders_json'.doc) = <<FOLDERS'>>
      ]_vars

\* C7's case: delete_chat has removed a record and returned Ok, one record
\* of another id is left, and the file holds it.
C7_Deleted ==
    /\ last.op = "delete_chat"
    /\ last.branch = "hit"
    /\ last.res = "Ok"
    /\ Len(CHATS) = 1
    /\ CHATS[1].id # last.arg[1]
    /\ StoredChats(chats_json) = CHATS

(***************************************************************************)
(* C8.  delete_chat(id) returns not-found only if the id is absent: in     *)
(* every reachable state, if get_all_chats called now would return a       *)
(* record with the id, delete_chat(id) called now does not return the      *)
(* not-found error; the same for delete_folder and get_all_folders.        *)
(***************************************************************************)
C8_NotFoundOnlyIfAbsent ==
    \A id \in Ids :
        /\ (\E r \in Records(get_all_chats_call(CHATS, chats_json, "ok").ret) : r.id = id)
              => delete_chat_call(CHATS, chats_json, id, "ok").res
                     # "Chat with ID not found"
        /\ (\E r \in Records(get_all_folders_call(FOLDERS, folders_json, "ok").ret) : r.id = id)
              => delete_folder_call(FOLDERS, folders_json, id, "ok").res
                     # "Folder with ID not found"

(***************************************************************************)
(* C9.  Round trip: in the state a save_settings, save_chat or save_folder *)
(* that returned Ok leaves, the matching get called with an empty cache,   *)
(* as in a fresh process, and reading the file returns the in-memory       *)
(* value: the same settings, the same records in the same order.           *)
(***************************************************************************)
C9_RoundTrip ==
    /\ (last.op = "save_settings" /\ last.res = "Ok") =>
          get_settings_call(None, settings_json, "ok").ret = SETTINGS[1]
    /\ (last.op = "save_chat" /\ last.res = "Ok") =>
          get_all_chats_call(<<>>, chats_json, "ok").ret = CHATS
    /\ (last.op = "save_folder" /\ last.res = "Ok") =>
          get_all_folders_call(<<>>, folders_json, "ok").ret = FOLDERS

\* C9's case: save_chat has returned Ok with two records in memory that have
\* the same timestamp, one of them with a title and a message.
C9_SavedTwoRecords ==
    /\ last.op = "save_chat"
    /\ last.res = "Ok"
    /\ Len(CHATS) = 2
    /\ CHATS[1].timestamp = CHATS[2].timestamp
    /\ CHATS[1].id # CHATS[2].id
    /\ CHATS[1].title # None
    /\ CHATS[1].messages # <<>>

\* The text is not the JSON of a settings value.
NotSettingsJson(doc) == \A s \in SettingsInputs : doc # SettingsToJson(s)

(***************************************************************************)
(* C10.  The read path never surfaces an error: a get that finds its cache *)
(* empty and then finds the file absent, unreadable or not parsing, or     *)
(* cannot resolve the path, returns a plain value, the built-in default    *)
(* settings for get_settings and the empty sequence for get_all_chats and  *)
(* get_all_folders.                                                        *)
(***************************************************************************)
C10_ReadPathDefaults ==
    [][ /\ (/\ last'.op = "get_settings"
            /\ SETTINGS = None
            /\ \/ ~settings_json.exists
               \/ NotSettingsJson(settings_json.doc)
               \/ last'.branch \in {"read_err", "path_err"}) =>
                  /\ last'.res = "value"
                  /\ last'.ret = <<create_default_settings>>
        /\ (/\ last'.op = "get_all_chats"
            /\ CHATS = <<>>
            /\ \/ ~chats_json.exists
               \/ chats_json.doc = Garbage
               \/ last'.branch \in {"read_err", "path_err"}) =>
                  /\ last'.res = "value"
                  /\ last'.ret = <<>>
        /\ (/\ last'.op = "get_all_folders"
            /\ FOLDERS = <<>>
            /\ \/ ~folders_json.exists
               \/ folders_json.doc = Garbage
               \/ last'.branch \in {"read_err", "path_err"}) =>
                  /\ last'.res = "value"
                  /\ last'.ret = <<>>
      ]_vars

\* C10's case: get_settings has met a file that is JSON but not a settings
\* value, written from settings other than the default.
C10_MetUnparsableSettings ==
    /\ last.op = "get_settings"
    /\ last.branch = "parse_err"
    /\ settings_json.exists
    /\ settings_json.doc # Garbage
    /\ settings_json.doc.members.openai_api_key.value # ""

(***************************************************************************)
(* C11.  Write-through also when persistence fails: in the state a         *)
(* save_settings(s) leaves, whether it returned Ok or Err, get_settings    *)
(* returns exactly s; in the state a save_chat(c) or save_folder(f)        *)
(* leaves, whether Ok or Err, get_all returns a collection that holds the  *)
(* saved record.  The get is taken with every answer of the operating      *)
(* system.                                                                 *)
(***************************************************************************)
C11_WriteThrough ==
    /\ last.op = "save_settings" =>
          \A io \in GetIo :
              get_settings_call(SETTINGS, settings_json, io).ret = last.arg[1]
    /\ last.op = "save_chat" =>
          \A io \in GetIo :
              last.arg[1] \in Records(get_all_chats_call(CHATS, chats_json, io).ret)
    /\ last.op = "save_folder" =>
          \A io \in GetIo :
              last.arg[1] \in Records(get_all_folders_call(FOLDERS, folders_json, io).ret)

\* C11's case: save_chat has returned the write error, the file does not hold
\* the saved chat, and get_all_chats called now returns it.
C11_SavedNotPersisted ==
    /\ last.op = "save_chat"
    /\ last.res = "Failed to write chats file"
    /\ last.arg[1] \notin Records(StoredChats(chats_json))
    /\ last.arg[1] \in Records(get_all_chats_call(CHATS, chats_json, "ok").ret)

(***************************************************************************)
(* C12.  Collections state machine: once a get_all_chats (get_all_folders) *)
(* has returned from the cache or from a load whose path resolution and    *)
(* read did not fail, the next get_all call is answered from the in-memory *)
(* cache without reading the file, whatever the loaded collection is, the  *)
(* empty collection included.                                              *)
(***************************************************************************)
C12_LoadedStaysLoaded ==
    [][ /\ (/\ last.op = "get_all_chats"
            /\ last.branch \notin {"path_err", "read_err"}
            /\ last'.op = "get_all_chats") => last'.branch = "cache"
        /\ (/\ last.op = "get_all_folders"
            /\ last.branch \notin {"path_err", "read_err"}
            /\ last'.op = "get_all_folders") => last'.branch = "cache"
      ]_vars

(***************************************************************************)
(* C13.  Settings state machine: get_settings and save_settings leave a    *)
(* value in the settings cache; as long as the process lives the cache     *)
(* does not become empty again; save_settings(s) makes s the cached value; *)
(* and every get_settings that finds a cached value returns it, leaves it  *)
(* in place and does not read the file.                                    *)
(***************************************************************************)
C13_SettingsStayCached ==
    [][ /\ last'.op \in {"get_settings", "save_settings"} => SETTINGS' # None
        /\ last'.op = "save_settings" => SETTINGS' = Some(last'.arg[1])
        /\ (SETTINGS # None /\ last'.op # "restart") => SETTINGS' # None
        /\ (SETTINGS # None /\ last'.op = "get_settings") =>
              /\ last'.branch = "cache"
              /\ last'.ret = SETTINGS
              /\ SETTINGS' = SETTINGS
      ]_vars

\* C13's case: get_settings has answered from the cache, with settings other
\* than the default, while the file holds text that does not parse.
C13_ServedFromCache ==
    /\ last.op = "get_settings"
    /\ last.branch = "cache"
    /\ settings_json = Text(Garbage)
    /\ SETTINGS # Some(create_default_settings)
    /\ last.ret = SETTINGS

(***************************************************************************)
(* C14.  Write-path and delete-path failures are surfaced: a               *)
(* save_settings, save_chat, save_folder, delete_chat or delete_folder     *)
(* call in which path resolution, the creation of the parent directory or  *)
(* the file write fails does not return Ok, and a call that returns Ok has *)
(* left the file written with the in-memory value.                         *)
(***************************************************************************)
C14_FailuresSurfaced ==
    [][ /\ (/\ last'.op \in {"save_settings", "save_chat", "save_folder",
                             "delete_chat", "delete_folder"}
            /\ failures' # failures) => last'.res # "Ok"
        /\ (last'.op = "save_settings" /\ last'.res = "Ok") =>
              settings_json' = Text(SettingsToJson(SETTINGS'[1]))
        /\ (last'.op \in {"save_chat", "delete_chat"} /\ last'.res = "Ok") =>
              chats_json' = Text(ChatsToJson(CHATS'))
        /\ (last'.op \in {"save_folder", "delete_folder"} /\ last'.res = "Ok") =>
              folders_json' = Text(FoldersToJson(FOLDERS'))
      ]_vars

\* C14's case: save_settings has met a failing fs::write that left the file
\* truncated, and has returned the write error.
C14_WriteErrorReturned ==
    /\ last.op = "save_settings"
    /\ last.res = "Failed to write settings file"
    /\ settings_json = Text(Garbage)
    /\ failures = 1

(***************************************************************************)
(* C15.  Snapshot persistence: in the state a save_chat, delete_chat,      *)
(* save_folder or delete_folder that returned Ok leaves, the file holds    *)
(* the serialization of the complete in-memory collection, the same        *)
(* records in the same order.                                              *)
(***************************************************************************)
C15_FileIsSnapshot ==
    /\ (last.op \in {"save_chat", "delete_chat"} /\ last.res = "Ok") =>
          /\ chats_json = Text(ChatsToJson(CHATS))
          /\ StoredChats(chats_json) = CHATS
    /\ (last.op \in {"save_folder", "delete_folder"} /\ last.res = "Ok") =>
          /\ folders_json = Text(FoldersToJson(FOLDERS))
          /\ StoredFolders(folders_json) = FOLDERS

\* C15's case: save_folder has returned Ok with two folders in memory, and
\* the file holds both.
C15_WroteWholeCollection ==
    /\ last.op = "save_folder"
    /\ last.res = "Ok"
    /\ Len(FOLDERS) = 2
    /\ Len(StoredFolders(folders_json)) = 2

(***************************************************************************)
(* C16.  Operations on one collection are serialized by its lock.  A       *)
(* handler that is about to return has left the cache and the file, and    *)
(* returns, what the same call leaves and returns when it runs alone from  *)
(* the cache and the file it found when it took the lock; once both calls  *)
(* have returned, the cache, the file and the two results are those of the *)
(* calls run one after the other in some order; and two save_chat with     *)
(* different ids leave both records in the cache, and in the file when     *)
(* both returned Ok.                                                       *)
(***************************************************************************)
\* The call c run alone, from start to end, on a cache and a file.
Alone(c, cache, file) ==
    CASE c.op \in GetOps ->
            LET r == CASE c.op = "get_settings" -> get_settings_call(cache, file, c.io)
                       [] c.op = "get_all_chats" -> get_all_chats_call(cache, file, c.io)
                       [] c.op = "get_all_folders" -> get_all_folders_call(cache, file, c.io)
            IN  [cache |-> r.cache, file |-> file, res |-> "Ok", ret |-> r.ret]
      [] OTHER ->
            LET r == CASE c.op = "save_settings" -> save_settings_call(cache, file, c.arg, c.io)
                       [] c.op = "save_chat" -> save_chat_call(cache, file, c.arg, c.io)
                       [] c.op = "delete_chat" -> delete_chat_call(cache, file, c.arg, c.io)
                       [] c.op = "save_folder" -> save_folder_call(cache, file, c.arg, c.io)
                       [] c.op = "delete_folder" -> delete_folder_call(cache, file, c.arg, c.io)
            IN  [cache |-> r.cache, file |-> r.file, res |-> r.res, ret |-> <<>>]

\* The thread's call has the effect and the result of the call run alone
\* from the cache and the file it found behind the lock.
AsAlone(t, cache, file) ==
    LET c == threads[t]
        a == Alone(c, c.seen[1], c.seen[2])
    IN  /\ cache = a.cache
        /\ file = a.file
        /\ c.res = a.res
        /\ c.ret = a.ret

AllDone == \A t \in Threads : threads[t].pc = "done"

C16_Serialized ==
    /\ \A t \in Threads :
          threads[t].pc = "return" =>
             AsAlone(t, Cache(RepositoryOf(threads[t].op)),
                        File(RepositoryOf(threads[t].op)))
    /\ AllDone =>
          \E x \in Threads : \E y \in Threads \ {x} :
             /\ threads[x].seen[1] = <<>>
             /\ AsAlone(x, threads[y].seen[1], threads[y].seen[2])
             /\ AsAlone(y, CHATS, chats_json)
    /\ (/\ AllDone
        /\ \A t \in Threads : threads[t].op = "save_chat"
        /\ threads["t1"].arg.id # threads["t2"].arg.id) =>
          /\ \A t \in Threads : threads[t].arg \in Records(CHATS)
          /\ (\A t \in Threads : threads[t].res = "Ok") =>
                \A t \in Threads : threads[t].arg \in Records(StoredChats(chats_json))

\* C16's case: two save_chat with different ids have both returned Ok, and
\* the second to take the lock found the record of the first in the cache.
C16_BothSaved ==
    /\ AllDone
    /\ \A t \in Threads : threads[t].op = "save_chat" /\ threads[t].res = "Ok"
    /\ threads["t1"].arg.id # threads["t2"].arg.id
    /\ threads["t1"].seen[1] = <<threads["t2"].arg>>
    /\ Len(StoredChats(chats_json)) = 2

(***************************************************************************)
(* C17.  No lock-ordering hazard: a thread holds at most one of the three  *)
(* locks, the lock of its handler's repository from lock() until it        *)
(* returns and none before or after, also when the handler returns an     *)
(* error; and every call returns in the end.                               *)
(***************************************************************************)
\* The locks whose guard thread t holds.
Held(t) == { repo \in Repositories : mutex[repo] = t }

C17_OneLockThenReturn ==
    /\ [](\A t \in Threads :
            /\ Cardinality(Held(t)) <= 1
            /\ threads[t].pc \in {"cache", "path", "file", "finish", "return"} =>
                  Held(t) = {RepositoryOf(threads[t].op)}
            /\ threads[t].pc \in {"lock", "done"} => Held(t) = {})
    /\ \A t \in Threads : <>(threads[t].pc = "done")

\* C17's case: save_folder has returned the write error, and get_all_folders
\* on the other thread took the lock after it and has returned too.
C17_LockedAfterErrorReturn ==
    /\ AllDone
    /\ threads["t1"].op = "save_folder"
    /\ threads["t1"].res = "Failed to write folders file"
    /\ threads["t2"].op = "get_all_folders"
    /\ threads["t2"].seen = <<<<threads["t1"].arg>>, Text(Garbage)>>
    /\ \A repo \in Repositories : mutex[repo] = Free

(***************************************************************************)
(* C18.  Outcome classification of execute_command once the child has      *)
(* exited: (1) stderr non-empty and status successful: Ok with stdout, a    *)
(* "Warnings:" heading and stderr; (2) stderr non-empty and status         *)
(* unsuccessful: Err; (3) stderr empty, stdout empty and status            *)
(* unsuccessful: Err with a message that states the exit status; (4)       *)
(* every other combination, stderr empty with stdout non-empty and status  *)
(* unsuccessful included: Ok with stdout as the message.                   *)
(***************************************************************************)
\* The call of thread t has returned after its child exited.
ChildExited(t) ==
    /\ threads[t].op = "execute_command"
    /\ threads[t].pc = "done"
    /\ threads[t].io.child.launched
    /\ threads[t].local # <<>>

C18_OutcomeClassification ==
    \A t \in DOMAIN threads :
       ChildExited(t) =>
          LET c == threads[t]
              out == c.io.child
              stdout == from_utf8_lossy(out.stdout)
              stderr == from_utf8_lossy(out.stderr)
          IN  CASE out.stderr # <<>> /\ out.status.success ->
                      /\ c.res = "Ok"
                      /\ c.ret = stdout \o "\n\nWarnings:\n" \o stderr
                [] out.stderr # <<>> /\ ~out.status.success ->
                      c.res = "Err"
                [] out.stderr = <<>> /\ out.stdout = <<>> /\ ~out.status.success ->
                      /\ c.res = "Err"
                      /\ Contains(c.ret, out.status.text)
                [] OTHER ->
                      /\ c.res = "Ok"
                      /\ c.ret = stdout

\* C18's case: the child wrote to stdout and nothing to stderr, exited with
\* an unsuccessful status, and the call returned Ok with the stdout text.
C18_FailedWithOutputIsOk ==
    /\ ChildExited("t1")
    /\ threads["t1"].io.child.stderr = <<>>
    /\ threads["t1"].io.child.stdout = <<"o">>
    /\ ~threads["t1"].io.child.status.success
    /\ threads["t1"].res = "Ok"
    /\ threads["t1"].ret = "o"

(***************************************************************************)
(* C19.  When the child writes to stderr and exits with an unsuccessful    *)
(* status, execute_command returns Err, and the message is the line        *)
(* "Command failed with error:" followed by the child's stderr text.  As   *)
(* first stated, the message is the child's stderr text.                   *)
(***************************************************************************)
\* The call of thread t has returned after its child wrote to stderr and
\* exited with an unsuccessful status.
FailedWithStderr(t) ==
    /\ ChildExited(t)
    /\ threads[t].io.child.stderr # <<>>
    /\ ~threads[t].io.child.status.success

C19_ErrIsStderr ==
    \A t \in DOMAIN threads :
       FailedWithStderr(t) =>
          /\ threads[t].res = "Err"
          /\ threads[t].ret = from_utf8_lossy(threads[t].io.child.stderr)

C19_ErrIsPrefixedStderr ==
    \A t \in DOMAIN threads :
       FailedWithStderr(t) =>
          /\ threads[t].res = "Err"
          /\ threads[t].ret = "Command failed with error:\n"
                                 \o from_utf8_lossy(threads[t].io.child.stderr)

\* C19's case: the child wrote "o" to stderr and exited with status 1, and
\* the call returned Err.
C19_StderrAndFailure ==
    /\ FailedWithStderr("t1")
    /\ threads["t1"].io.child.stderr = <<"o">>
    /\ threads["t1"].io.child.status.text = "exit status: 1"
    /\ threads["t1"].res = "Err"

(***************************************************************************)
(* C20.  execute_command with a command line that has no non-whitespace    *)
(* character, empty or whitespace only, returns the "Empty command" error  *)
(* from its first step and launches no child, whatever the working         *)
(* directory argument is.                                                  *)
(***************************************************************************)
\* s has no character that is not whitespace.
OnlyWhitespace(s) == \A i \in 1 .. Len(s) : SubSeq(s, i, i) \in Whitespace

C20_EmptyCommand ==
    \A t \in DOMAIN threads :
       (threads[t].op = "execute_command" /\ OnlyWhitespace(threads[t].arg.command)) =>
          /\ threads[t].pc \in {"split", "done"}
          /\ threads[t].local = <<>>
          /\ threads[t].pc = "done" =>
                threads[t].res = "Err" /\ threads[t].ret = "Empty command"

\* C20's case: a command line of a space and a tab, with a working directory
\* that does not exist, has returned the error.
C20_WhitespaceOnlyRejected ==
    /\ threads["t1"].op = "execute_command"
    /\ threads["t1"].arg.command = " \t"
    /\ threads["t1"].arg.cwd = Some("/gone")
    /\ threads["t1"].pc = "done"
    /\ threads["t1"].ret = "Empty command"
    /\ threads["t1"].local = <<>>

(***************************************************************************)
(* C21.  A working directory that is given but does not exist is ignored   *)
(* by execute_command: the child is launched all the same, without a       *)
(* directory of its own, and the call returns what it returns for the same *)
(* command line and the same child with a directory that exists; the       *)
(* missing directory alone never produces an Err.                          *)
(***************************************************************************)
\* The call of thread t names a working directory that does not exist, and
\* its command line has a program token.
MissingDirGiven(t) ==
    /\ threads[t].op = "execute_command"
    /\ threads[t].arg.cwd # None
    /\ threads[t].arg.cwd[1] \notin Directories
    /\ ~OnlyWhitespace(threads[t].arg.command)

C21_MissingDirIgnored ==
    \A t \in DOMAIN threads :
       MissingDirGiven(t) =>
          LET c == threads[t]
              given == execute_command_call(c.arg.command, Some("/work"), c.io)
          IN  /\ (c.pc = "wait" \/ (c.pc = "done" /\ c.io.child.launched)) =>
                    /\ Len(c.local) = 1
                    /\ c.local[1].current_dir = None
              /\ c.pc = "done" =>
                    /\ c.res = given.res
                    /\ c.ret = given.message
                    /\ (c.res = "Err" /\ c.io.child.launched) =>
                          ~c.io.child.status.success

\* C21's case: with the working directory "/gone" the child ran and exited
\* successfully, and the call returned Ok.
C21_RanWithoutDir ==
    /\ MissingDirGiven("t1")
    /\ threads["t1"].arg.cwd = Some("/gone")
    /\ threads["t1"].pc = "done"
    /\ threads["t1"].res = "Ok"
    /\ threads["t1"].local # <<>>
    /\ threads["t1"].local[1].current_dir = None

(***************************************************************************)
(* C22.  When the launch of the child fails because the executable cannot  *)
(* be found, execute_command returns Err with the message "Program '..'    *)
(* not found. .." that names the program token, the first token of the     *)
(* command line, and does not carry the error text of the operating        *)
(* system.                                                                 *)
(***************************************************************************)
\* The call of thread t has returned after the launch of its child failed
\* with the error text e.
LaunchFailed(t, e) ==
    /\ threads[t].op = "execute_command"
    /\ threads[t].pc = "done"
    /\ ~OnlyWhitespace(threads[t].arg.command)
    /\ ~threads[t].io.child.launched
    /\ threads[t].io.child.error = e

\* The program token of the call of thread t.
Program(t) == Head(split_whitespace(threads[t].arg.command))

C22_NotFoundNamesProgram ==
    \A t \in DOMAIN threads :
       \A e \in {"No such file or directory (os error 2)", "program not found"} :
          LaunchFailed(t, e) =>
             /\ threads[t].res = "Err"
             /\ threads[t].ret =
                   "Program '" \o Program(t)
                      \o "' not found. Make sure it is installed and in your system PATH."
             /\ ~Contains(threads[t].ret, e)
             /\ threads[t].local = <<>>

\* C22's case: the command line " xx", a space before the program, could not
\* be launched for want of the file, and the message names xx.
C22_MissingProgramNamed ==
    /\ LaunchFailed("t1", "No such file or directory (os error 2)")
    /\ threads["t1"].arg.command = " xx"
    /\ Contains(threads["t1"].ret, "Program 'xx' not found")

(***************************************************************************)
(* C23.  When the launch of the child fails because the operating system   *)
(* denies permission, with the error text "Permission denied (os error     *)
(* 13)", execute_command returns Err with the message "Permission denied   *)
(* when trying to execute '..'. .." that names the program; only launch    *)
(* failures that are neither not-found nor permission-denied come back as  *)
(* "Failed to execute command: " with the text of the operating system.    *)
(***************************************************************************)
C23_PermissionDeniedReworded ==
    \A t \in DOMAIN threads :
       /\ LaunchFailed(t, "Permission denied (os error 13)") =>
             /\ threads[t].res = "Err"
             /\ threads[t].ret =
                   "Permission denied when trying to execute '" \o Program(t)
                      \o "'. Check file permissions."
       /\ \A e \in LaunchErrors :
             (LaunchFailed(t, e) /\ threads[t].ret = "Failed to execute command: " \o e) =>
                e \notin {"No such file or directory (os error 2)",
                          "program not found",
                          "Permission denied (os error 13)"}

(***************************************************************************)
(* C24.  execute_command enforces no whitelist and no blacklist: whatever  *)
(* settings are cached or persisted, the lists whitelisted_commands and    *)
(* blacklisted_commands included, a call launches its child, and returns   *)
(* its result, as the command line, the working directory and the answers  *)
(* of the operating system alone determine.                                *)
(***************************************************************************)
\* The settings of the process: the cached ones, else the persisted ones.
SettingsInForce ==
    IF SETTINGS # None THEN SETTINGS
    ELSE IF settings_json.exists THEN SettingsFromJson(settings_json.doc)
    ELSE None

C24_NoListEnforcement ==
    \A t \in DOMAIN threads :
       threads[t].op = "execute_command" =>
          LET c == threads[t]
              r == execute_command_call(c.arg.command, c.arg.cwd, c.io)
          IN  /\ (c.pc = "wait" \/ (c.pc = "done" /\ c.io.child.launched)) =>
                    (~OnlyWhitespace(c.arg.command) => Len(c.local) = 1)
              /\ c.pc = "done" =>
                    /\ c.res = r.res
                    /\ c.ret = r.message
                    /\ c.local = r.children

\* C24's case: the settings in force blacklist the program xx, and the
\* command line "xx" has run its child and returned Ok.
C24_BlacklistedProgramRan ==
    /\ SettingsInForce # None
    /\ SettingsInForce[1].blacklisted_commands = <<"xx", "rm">>
    /\ threads["t1"].op = "execute_command"
    /\ threads["t1"].arg.command = "xx"
    /\ threads["t1"].pc = "done"
    /\ threads["t1"].res = "Ok"
    /\ Len(threads["t1"].local) = 1
    /\ threads["t1"].local[1].program = "xx"

(***************************************************************************)
(* C25.  execute_command gives no result before its child has exited, and  *)
(* while it runs it holds none of the three locks and its steps leave the  *)
(* caches and the files as they are: a repository handler called at the    *)
(* same time returns in the end, also when the child never exits.          *)
(***************************************************************************)
C25_CommandHoldsNothing ==
    /\ [](/\ Held("t1") = {}
          /\ threads["t1"].pc \in {"split", "spawn", "wait"} =>
                threads["t1"].res = "" /\ threads["t1"].ret = "")
    /\ [][threads'["t1"] # threads["t1"] =>
             UNCHANGED <<SETTINGS, CHATS, FOLDERS, settings_json, chats_json,
                         folders_json, mutex>>]_vars
    /\ <>(threads["t2"].pc = "done")

\* C25's case: save_settings has written the file and returned Ok while the
\* command still waits for its child.
C25_SavedWhileChildRuns ==
    /\ threads["t1"].op = "execute_command"
    /\ threads["t1"].pc = "wait"
    /\ threads["t2"].op = "save_settings"
    /\ threads["t2"].pc = "done"
    /\ threads["t2"].res = "Ok"
    /\ settings_json.exists

(***************************************************************************)
(* C26.  A deleted record does not come back: when delete_chat(id) or      *)
(* delete_folder(id) has removed a record from the in-memory collection,   *)
(* whether it returned Ok or a path or write error, the get_all call that  *)
(* comes next, with no save in between, returns no record with that id;    *)
(* the deletion of the last remaining record is included.                  *)
(***************************************************************************)
C26_DeletedStaysDeleted ==
    [][ /\ (/\ last.op = "delete_chat"
            /\ last.branch = "hit"
            /\ last'.op = "get_all_chats") =>
              CountId(last'.ret, last.arg[1]) = 0
        /\ (/\ last.op = "delete_folder"
            /\ last.branch = "hit"
            /\ last'.op = "get_all_folders") =>
              CountId(last'.ret, last.arg[1]) = 0
      ]_vars

(***************************************************************************)
(* C27.  After every mutation (save_chat, delete_chat, save_folder,        *)
(* delete_folder) and after every load from disk the in-memory collection  *)
(* is sorted by timestamp, newest first, and so is every file a mutation   *)
(* has written, whatever order the records had in the file loaded.         *)
(***************************************************************************)
C27_SortedAfterMutationAndLoad ==
    /\ (\/ last.op \in {"save_chat", "delete_chat"}
        \/ (last.op = "get_all_chats" /\ last.branch = "loaded")) =>
          IsSortedDesc(CHATS)
    /\ (last.op \in {"save_chat", "delete_chat"} /\ last.res = "Ok") =>
          IsSortedDesc(StoredChats(chats_json))
    /\ (\/ last.op \in {"save_folder", "delete_folder"}
        \/ (last.op = "get_all_folders" /\ last.branch = "loaded")) =>
          IsSortedDesc(FOLDERS)
    /\ (last.op \in {"save_folder", "delete_folder"} /\ last.res = "Ok") =>
          IsSortedDesc(StoredFolders(folders_json))

(***************************************************************************)
(* C28.  Id uniqueness: when the files the process finds at its start hold *)
(* each id at most once, then in every state reached by get_all, save,     *)
(* delete and restart no two records of the in-memory chats, or of the     *)
(* in-memory folders, have the same id, and neither have two records of a  *)
(* file.                                                                   *)
(***************************************************************************)
C28_IdsStayUnique ==
    /\ UniqueIds(CHATS)
    /\ UniqueIds(FOLDERS)
    /\ chats_json.exists => UniqueIds(StoredChats(chats_json))
    /\ folders_json.exists => UniqueIds(StoredFolders(folders_json))

\* C28's case: save_chat has replaced the record of an id held before, and
\* memory and file hold two records of different ids.
C28_UpdatedKeepsIdsUnique ==
    /\ last.op = "save_chat"
    /\ last.branch = "update"
    /\ last.res = "Ok"
    /\ Len(CHATS) = 2
    /\ UniqueIds(CHATS)
    /\ StoredChats(chats_json) = CHATS

(***************************************************************************)
(* C29.  Crash during a file write: when the process dies at any point of  *)
(* the fs::write of a save or delete, leaving the old content, the new     *)
(* content or a truncated file, the first get after the restart returns a  *)
(* value and no error, and the value is the one before the operation (in   *)
(* memory or in the file), the one after it, or the default (the empty     *)
(* collection, the default settings); it is never a part of a collection.  *)
(***************************************************************************)
\* The collections that count as before or after the interrupted call w,
\* in the order a get returns them, and the empty collection.
WholeCollections(w, stored) ==
    { SortByTimestampDesc(w.cache), SortByTimestampDesc(stored),
      SortByTimestampDesc(w.after), <<>> }

C31_OtherRepositoriesUntouched ==
    [][ \A t \in Threads :
          threads'[t] # threads[t] =>
             LET repo == RepositoryOf(threads[t].op)
             IN  /\ repo # "settings" => UNCHANGED <<SETTINGS, settings_json>>
                 /\ repo # "chats" => UNCHANGED <<CHATS, chats_json>>
                 /\ repo # "folders" => UNCHANGED <<FOLDERS, folders_json>>
                 /\ \A other \in Repositories \ {repo} : mutex'[other] = mutex[other]
      ]_vars

\* C31's case: save_folder has written a folder, and save_chat, which took
\* its lock afterwards, has written a chat; the folder is still in memory
\* and in its file.
C31_ChatSavedBesideFolder ==
    /\ AllDone
    /\ threads["t1"].op = "save_folder" /\ threads["t1"].res = "Ok"
    /\ threads["t2"].op = "save_chat" /\ threads["t2"].res = "Ok"
    /\ FOLDERS = <<threads["t1"].arg>>
    /\ StoredFolders(folders_json) = FOLDERS
    /\ CHATS = <<threads["t2"].arg>>
    /\ StoredChats(chats_json) = CHATS
    /\ SETTINGS = None /\ ~settings_json.exists

(***************************************************************************)
(* C32.  The folders repository behaves exactly like the chats repository: *)
(* after every step of the same sequence of get_all, save and delete calls *)
(* (same ids and timestamps, same content of the two files at start, same  *)
(* failures of the operating system), both calls gave Ok or both gave Err, *)
(* both returned the same ids in the same order, FOLDERS holds the ids     *)
(* CHATS holds in the same order, and folders.json holds the ids           *)
(* chats.json holds in the same order, or neither file exists, or neither  *)
(* holds a vector.                                                         *)
(***************************************************************************)
C32_FoldersLikeChats ==
    /\ IdsAndTimestamps(FOLDERS) = IdsAndTimestamps(CHATS)
    /\ folders_json.exists = chats_json.exists
    /\ chats_json.exists =>
          /\ (FoldersFromJson(folders_json.doc) = <<>>) = (ChatsFromJson(chats_json.doc) = <<>>)
          /\ IdsAndTimestamps(StoredFolders(folders_json)) =
                IdsAndTimestamps(StoredChats(chats_json))
    /\ last.op \in {"get_all", "save", "delete"} =>
          /\ (last.folders.res = "Ok") = (last.res = "Ok")
          /\ last.folders.branch = last.branch
          /\ IdsAndTimestamps(last.folders.ret) = IdsAndTimestamps(last.ret)

\* C32's case: both repositories hold two records, out of order in memory
\* after a load, and the delete of one of them failed at the write in both,
\* which left the record in both files and in neither vector.
C32_BothFailedTheSameWay ==
    /\ last.op = "delete"
    /\ last.res # "Ok" /\ last.folders.res # "Ok"
    /\ last.branch = "hit"
    /\ Len(FOLDERS) = 1
    /\ Len(StoredFolders(folders_json)) = 2
    /\ ~IsSortedDesc(StoredFolders(folders_json))

====
